---- MODULE Spec2Model ----
(***************************************************************************)
(* Chunker (ChunkingAgent) and evaluator (EvaluationUtils) of the Beetle    *)
(* RAG backend.                                                             *)
(*                                                                          *)
(* A Python str is a sequence of atoms.  An atom is one character (" ",    *)
(* "\n", ".", "#", a letter ...) or the literal text of one keyword of the *)
(* regular-expression tables ("import", "def", ...), so that every regular *)
(* expression of the source is a sequence of quantified atom classes.      *)
(***************************************************************************)
EXTENDS Integers, Sequences, FiniteSets, TLC

SP == " "
NL == "\n"
\* None, for a field that holds a str, a line number, a uuid or a header line
None == "None"
NoLine == 0
NoId == <<>>
NoHeader == <<>>

Letters == {"a", "b", "c"}

Keywords ==
    {"def", "class", "import", "from", "function", "const", "let", "var",
     "public", "private", "include", "package", "if", "__name__", "__main__",
     "console", "log", "export", "default", "interface", "type", "Promise",
     "static", "void", "main", "java", "std", "namespace", "int", "printf",
     "struct", "func", "fmt", "fn", "use", "pub", "mut"}

\* the characters `, ' and "
Backtick == "backtick"
Apostrophe == "apostrophe"
DoubleQuote == "doublequote"

Punctuation ==
    {".", "!", "?", "#", "(", ")", ":", "{", "}", "<", ">", "=", "[", "]",
     "*", "|", Backtick, Apostrophe, DoubleQuote}

\* str.isspace / the class \s
Space == {SP, NL}

\* the class \w
Word == Letters \cup Keywords

Atoms == Space \cup Word \cup Punctuation

Max(S) == CHOOSE x \in S : \A y \in S : y <= x

Min2(a, b) == IF a <= b THEN a ELSE b

\* sum(f(x) for x in seq)
RECURSIVE SumSeq(_)
SumSeq(ns) ==
    IF ns = <<>> THEN 0 ELSE Head(ns) + SumSeq(Tail(ns))

\* set(seq)
SetOf(seq) == {seq[i] : i \in 1..Len(seq)}

(***************************************************************************)
(* Python string methods                                                    *)
(***************************************************************************)

\* sep.join(parts)
RECURSIVE Join(_, _)
Join(parts, sep) ==
    IF parts = <<>> THEN <<>>
    ELSE IF Len(parts) = 1 THEN parts[1]
    ELSE parts[1] \o sep \o Join(Tail(parts), sep)

\* s.split(sep) for a one-atom separator: always at least one part
RECURSIVE SplitOnFrom(_, _, _, _)
SplitOnFrom(s, sep, i, cur) ==
    IF i > Len(s) THEN <<cur>>
    ELSE IF s[i] = sep THEN <<cur>> \o SplitOnFrom(s, sep, i + 1, <<>>)
    ELSE SplitOnFrom(s, sep, i + 1, Append(cur, s[i]))

SplitOn(s, sep) == SplitOnFrom(s, sep, 1, <<>>)

\* s.split(): the maximal runs of non-whitespace atoms
RECURSIVE SplitFrom(_, _, _)
SplitFrom(s, i, cur) ==
    IF i > Len(s) THEN (IF cur = <<>> THEN <<>> ELSE <<cur>>)
    ELSE IF s[i] \in Space
         THEN (IF cur = <<>> THEN <<>> ELSE <<cur>>) \o SplitFrom(s, i + 1, <<>>)
         ELSE SplitFrom(s, i + 1, Append(cur, s[i]))

Split(s) == SplitFrom(s, 1, <<>>)

\* len(s.split())
WordCount(s) == Len(Split(s))

\* s.strip()
Strip(s) ==
    LET idx == {i \in 1..Len(s) : s[i] \notin Space}
    IN IF idx = {} THEN <<>>
       ELSE SubSeq(s, CHOOSE i \in idx : \A j \in idx : i <= j, Max(idx))

\* the number of atoms of s from position i on that lie in set, at most hi
RECURSIVE Run(_, _, _, _)
Run(set, s, i, hi) ==
    IF hi = 0 \/ i > Len(s) \/ s[i] \notin set THEN 0
    ELSE 1 + Run(set, s, i + 1, hi - 1)

(***************************************************************************)
(* Regular expressions: a pattern is a sequence of items [set, lo, hi],    *)
(* each matching lo..hi atoms of set, greedily and with backtracking.      *)
(***************************************************************************)
Inf == 99

Lit(a) == [set |-> {a}, lo |-> 1, hi |-> 1]
Ws1 == [set |-> Space, lo |-> 1, hi |-> Inf]
Ws0 == [set |-> Space, lo |-> 0, hi |-> Inf]
W1 == [set |-> Word, lo |-> 1, hi |-> Inf]
Dot0 == [set |-> Atoms \ {NL}, lo |-> 0, hi |-> Inf]
Dot1 == [set |-> Atoms \ {NL}, lo |-> 1, hi |-> Inf]
Not0(a) == [set |-> Atoms \ {a}, lo |-> 0, hi |-> Inf]
OneOf(S) == [set |-> S, lo |-> 1, hi |-> 1]

\* The end (index after the last matched atom) of the match of items k.. of
\* pattern p at position i of s that the backtracking matcher finds first;
\* 0 when there is none.
RECURSIVE MatchEnd(_, _, _, _)
MatchEnd(p, k, s, i) ==
    IF k > Len(p) THEN i
    ELSE LET run == Run(p[k].set, s, i, p[k].hi)
             ok == {n \in p[k].lo..run : MatchEnd(p, k + 1, s, i + n) # 0}
         IN IF ok = {} THEN 0 ELSE MatchEnd(p, k + 1, s, i + Max(ok))

\* re.match(p, s) is not None
ReMatch(p, s) == MatchEnd(p, 1, s, 1) # 0

\* re.match(p + '$', s) for a one-line s: the match has to reach the end of s
RECURSIVE MatchesTo(_, _, _, _)
MatchesTo(p, k, s, i) ==
    IF k > Len(p) THEN i = Len(s) + 1
    ELSE \E n \in p[k].lo..Run(p[k].set, s, i, p[k].hi) :
             MatchesTo(p, k + 1, s, i + n)

ReFullMatch(p, s) == MatchesTo(p, 1, s, 1)

\* re.search(p, s) is not None
ReSearch(p, s) == \E i \in 1..(Len(s) + 1) : MatchEnd(p, 1, s, i) # 0

\* re.finditer(p, s): the <<start, end>> spans of the non-overlapping
\* matches, scanning from the left (no pattern of the tables matches empty)
RECURSIVE FindIterFrom(_, _, _)
FindIterFrom(p, s, i) ==
    IF i > Len(s) THEN <<>>
    ELSE LET e == MatchEnd(p, 1, s, i)
         IN IF e = 0 \/ e = i THEN FindIterFrom(p, s, i + 1)
            ELSE <<(<<i, e>>)>> \o FindIterFrom(p, s, e)

FindIter(p, s) == FindIterFrom(p, s, 1)

\* re.split(r'\n\s*\n', s): a separator starts at a newline and runs, over
\* whitespace only, to the last newline of that whitespace run
ParagraphSepEnd(s, i) ==
    LET run == Run(Space, s, i + 1, Inf)
        nls == {j \in (i + 1)..(i + run) : s[j] = NL}
    IN IF s[i] # NL \/ nls = {} THEN 0 ELSE Max(nls) + 1

RECURSIVE SplitParagraphsFrom(_, _, _)
SplitParagraphsFrom(s, i, cur) ==
    IF i > Len(s) THEN <<cur>>
    ELSE LET e == ParagraphSepEnd(s, i)
         IN IF e = 0 THEN SplitParagraphsFrom(s, i + 1, Append(cur, s[i]))
            ELSE <<cur>> \o SplitParagraphsFrom(s, e, <<>>)

SplitParagraphs(s) == SplitParagraphsFrom(s, 1, <<>>)

\* re.split(r'[.!?]+', s): runs of terminators separate the pieces
Terminators == {".", "!", "?"}

RECURSIVE SplitTerminatorsFrom(_, _, _)
SplitTerminatorsFrom(s, i, cur) ==
    IF i > Len(s) THEN <<cur>>
    ELSE IF s[i] \in Terminators
         THEN <<cur>> \o SplitTerminatorsFrom(s, i + Run(Terminators, s, i, Inf), <<>>)
         ELSE SplitTerminatorsFrom(s, i + 1, Append(cur, s[i]))

\* [f(x) for x in seq if x.strip()] with f = strip
RECURSIVE StripNonEmpty(_)
StripNonEmpty(parts) ==
    IF parts = <<>> THEN <<>>
    ELSE IF Strip(Head(parts)) = <<>> THEN StripNonEmpty(Tail(parts))
    ELSE <<Strip(Head(parts))>> \o StripNonEmpty(Tail(parts))

_split_sentences(text) == StripNonEmpty(SplitTerminatorsFrom(text, 1, <<>>))

(***************************************************************************)
(* ChunkedDocument and the chunking strategies of ChunkingAgent.  cfg is   *)
(* the ChunkingAgentConfig; id stands for the fresh uuid4 of a chunk: the  *)
(* path of creation indices, unique within one call.                       *)
(***************************************************************************)
NoMeta ==
    [boundary_type |-> None, header |-> NoHeader, header_level |-> 0,
     node_type |-> None, node_name |-> <<>>, pattern_matched |-> FALSE,
     original_chunk_id |-> NoId, is_sub_chunk |-> FALSE]

\* span is the pair <<start_line, end_line>>
ChunkedDocument(id, content, chunk_index, chunk_type, language, metadata, span, token_count) ==
    [id |-> id, content |-> content, chunk_index |-> chunk_index,
     chunk_type |-> chunk_type, language |-> language, metadata |-> metadata,
     start_line |-> span[1], end_line |-> span[2],
     token_count |-> token_count]

NoSpan == <<NoLine, NoLine>>

\* the overlap is the whole closed chunk
WholeList(lst, n) == lst

\* lst[-n:] if len(lst) >= n else lst
LastN(lst, n) ==
    IF Len(lst) >= n THEN SubSeq(lst, Len(lst) - n + 1, Len(lst)) ELSE lst

\* [len(x.split()) for x in parts]
WordCounts(parts) == [i \in 1..Len(parts) |-> WordCount(parts[i])]

\* the "code_lines" chunk _chunk_by_lines closes
LineChunk(current_chunk, current_tokens, chunk_index, language) ==
    ChunkedDocument(<<chunk_index>>, Join(current_chunk, <<NL>>), chunk_index,
                    "code_lines", language,
                    [NoMeta EXCEPT !.boundary_type = "line"],
                    NoSpan, current_tokens)

\* the for loop of _chunk_by_lines from line i on
RECURSIVE ByLinesLoop(_, _, _, _, _, _, _)
ByLinesLoop(lines, i, chunks, current_chunk, current_tokens, language, cfg) ==
    IF i > Len(lines)
    THEN IF current_chunk # <<>>
         THEN Append(chunks, LineChunk(current_chunk, current_tokens,
                                       Len(chunks), language))
         ELSE chunks
    ELSE LET line == lines[i]
             line_tokens == WordCount(line)
         IN IF current_tokens + line_tokens > cfg.chunk_size /\ current_chunk # <<>>
            THEN LET next_chunk == Append(LastN(current_chunk, 5), line)
                 IN ByLinesLoop(lines, i + 1,
                        Append(chunks, LineChunk(current_chunk, current_tokens,
                                                 Len(chunks), language)),
                        next_chunk, SumSeq(WordCounts(next_chunk)), language, cfg)
            ELSE ByLinesLoop(lines, i + 1, chunks, Append(current_chunk, line),
                             current_tokens + line_tokens, language, cfg)

_chunk_by_lines(content, language, cfg) ==
    ByLinesLoop(SplitOn(content, NL), 1, <<>>, <<>>, 0, language, cfg)

\* header_pattern = r'^(#{1,6})\s+(.+)$'
header_pattern == <<[set |-> {"#"}, lo |-> 1, hi |-> 6], Ws1, Dot1>>

\* len(current_header.split('#')[0]) if current_header else 0
HeaderLevel(current_header) ==
    IF current_header = NoHeader THEN 0
    ELSE Len(SplitOn(current_header, "#")[1])

\* the "markdown_section" chunk _chunk_markdown closes
MarkdownChunk(current_chunk, current_header, chunk_index) ==
    ChunkedDocument(<<chunk_index>>, Join(current_chunk, <<NL>>), chunk_index,
                    "markdown_section", None,
                    [NoMeta EXCEPT !.header = current_header,
                                   !.header_level = HeaderLevel(current_header)],
                    NoSpan, WordCount(Join(current_chunk, <<NL>>)))

\* the for loop of _chunk_markdown from line i on
RECURSIVE MarkdownLoop(_, _, _, _, _)
MarkdownLoop(lines, i, chunks, current_chunk, current_header) ==
    IF i > Len(lines)
    THEN IF current_chunk # <<>>
         THEN Append(chunks, MarkdownChunk(current_chunk, current_header, Len(chunks)))
         ELSE chunks
    ELSE IF ReFullMatch(header_pattern, lines[i])
         THEN MarkdownLoop(lines, i + 1,
                  IF current_chunk # <<>>
                  THEN Append(chunks, MarkdownChunk(current_chunk, current_header,
                                                    Len(chunks)))
                  ELSE chunks,
                  <<lines[i]>>, lines[i])
         ELSE MarkdownLoop(lines, i + 1, chunks, Append(current_chunk, lines[i]),
                           current_header)

_chunk_markdown(content) ==
    MarkdownLoop(SplitOn(content, NL), 1, <<>>, <<>>, NoHeader)

\* the "text_semantic" chunk the sentence grouping of _chunk_text closes
SentenceChunk(current_chunk, current_tokens, chunk_index) ==
    ChunkedDocument(<<chunk_index>>, Join(current_chunk, <<SP>>), chunk_index,
                    "text_semantic", None,
                    [NoMeta EXCEPT !.boundary_type = "sentence"],
                    NoSpan, current_tokens)

\* the sentence loop of _chunk_text from sentence i on; chunks holds the
\* chunks of the whole document so far
RECURSIVE SentenceLoop(_, _, _, _, _, _)
SentenceLoop(sentences, i, chunks, current_chunk, current_tokens, cfg) ==
    IF i > Len(sentences)
    THEN IF current_chunk # <<>>
         THEN Append(chunks, SentenceChunk(current_chunk, current_tokens, Len(chunks)))
         ELSE chunks
    ELSE LET sentence == sentences[i]
             sentence_tokens == WordCount(sentence)
         IN IF current_tokens + sentence_tokens > cfg.chunk_size /\ current_chunk # <<>>
            THEN LET next_chunk == Append(LastN(current_chunk, 2), sentence)
                 IN SentenceLoop(sentences, i + 1,
                        Append(chunks, SentenceChunk(current_chunk, current_tokens,
                                                     Len(chunks))),
                        next_chunk, SumSeq(WordCounts(next_chunk)), cfg)
            ELSE SentenceLoop(sentences, i + 1, chunks,
                              Append(current_chunk, sentence),
                              current_tokens + sentence_tokens, cfg)

\* the "text_paragraph" chunk of a paragraph within the budget
ParagraphChunk(paragraph, chunk_index) ==
    ChunkedDocument(<<chunk_index>>, paragraph, chunk_index, "text_paragraph",
                    None, [NoMeta EXCEPT !.boundary_type = "paragraph"],
                    NoSpan, WordCount(paragraph))

\* the paragraph loop of _chunk_text from paragraph i on
RECURSIVE ParagraphLoop(_, _, _, _)
ParagraphLoop(paragraphs, i, chunks, cfg) ==
    IF i > Len(paragraphs) THEN chunks
    ELSE LET paragraph == Strip(paragraphs[i])
         IN IF paragraph = <<>> THEN ParagraphLoop(paragraphs, i + 1, chunks, cfg)
            ELSE IF WordCount(paragraph) > cfg.chunk_size
            THEN ParagraphLoop(paragraphs, i + 1,
                     SentenceLoop(_split_sentences(paragraph), 1, chunks, <<>>, 0, cfg),
                     cfg)
            ELSE ParagraphLoop(paragraphs, i + 1,
                     Append(chunks, ParagraphChunk(paragraph, Len(chunks))), cfg)

_chunk_text(content, cfg) ==
    ParagraphLoop(SplitParagraphs(content), 1, <<>>, cfg)

(***************************************************************************)
(* The validation pass                                                      *)
(***************************************************************************)

\* words[i:i + n] for a 0-based i
Slice(words, i, n) == SubSeq(words, i + 1, Min2(i + n, Len(words)))

\* f"{chunk.chunk_type}_sub"
SubType(chunk_type) ==
    CASE chunk_type = "code_function" -> "code_function_sub"
      [] chunk_type = "code_class" -> "code_class_sub"
      [] chunk_type = "code_lines" -> "code_lines_sub"
      [] chunk_type = "markdown_section" -> "markdown_section_sub"
      [] chunk_type = "text_paragraph" -> "text_paragraph_sub"
      [] chunk_type = "text_semantic" -> "text_semantic_sub"

\* the sub-chunk _split_large_chunk builds from the words at offset i, the
\* j-th it builds
SubChunk(chunk, words, i, j, cfg) ==
    LET sub_content == Join(Slice(words, i, cfg.chunk_size), <<SP>>)
    IN ChunkedDocument(Append(chunk.id, j), sub_content, chunk.chunk_index,
                       SubType(chunk.chunk_type), chunk.language,
                       [chunk.metadata EXCEPT !.original_chunk_id = chunk.id,
                                              !.is_sub_chunk = TRUE],
                       <<chunk.start_line, chunk.end_line>>, WordCount(sub_content))

\* for i in range(0, len(words), chunk_size), for a chunk_size > 0
RECURSIVE SplitLoop(_, _, _, _)
SplitLoop(chunk, words, i, cfg) ==
    IF i >= Len(words) THEN <<>>
    ELSE <<SubChunk(chunk, words, i, i \div cfg.chunk_size, cfg)>>
         \o SplitLoop(chunk, words, i + cfg.chunk_size, cfg)

\* range() raises ValueError for a step of zero
RangeError == "range() arg 3 must not be zero"

_split_large_chunk(chunk, cfg) == SplitLoop(chunk, Split(chunk.content), 0, cfg)

\* the for loop of _validate_chunks from chunk i on
RECURSIVE ValidateLoop(_, _, _)
ValidateLoop(chunks, i, cfg) ==
    IF i > Len(chunks) THEN <<>>
    ELSE IF WordCount(chunks[i].content) < cfg.min_chunk_size
         THEN ValidateLoop(chunks, i + 1, cfg)
    ELSE IF WordCount(chunks[i].content) > cfg.max_chunk_size
         THEN _split_large_chunk(chunks[i], cfg) \o ValidateLoop(chunks, i + 1, cfg)
    ELSE <<chunks[i]>> \o ValidateLoop(chunks, i + 1, cfg)

\* whether _validate_chunks reaches _split_large_chunk
SplitsSome(chunks, cfg) ==
    \E i \in 1..Len(chunks) :
        /\ WordCount(chunks[i].content) >= cfg.min_chunk_size
        /\ WordCount(chunks[i].content) > cfg.max_chunk_size

\* A call that may raise returns [raised, error, value].
Returns(value) == [raised |-> FALSE, error |-> None, value |-> value]
Raise(error) == [raised |-> TRUE, error |-> error, value |-> <<>>]

_validate_chunks(chunks, cfg) ==
    IF SplitsSome(chunks, cfg) /\ cfg.chunk_size = 0 THEN Raise(RangeError)
    ELSE Returns(ValidateLoop(chunks, 1, cfg))

(***************************************************************************)
(* Code strategies                                                          *)
(***************************************************************************)

\* ast.parse on the fragment of Python the inputs are drawn from: every
\* line is, after its indentation, blank, a comment, `import name`,
\* `from name import name`, a dotted name, a one-line `def name(): expr`,
\* `async def name(): expr` or `class name: expr`, or the header
\* `def name():`, `async def name():` or `class name:` of a block of deeper
\* lines; anything else is a SyntaxError.
PyKeywords == {"def", "class", "import", "from", "if"}
Blank1 == [set |-> {SP}, lo |-> 1, hi |-> Inf]
Blank0 == [set |-> {SP}, lo |-> 0, hi |-> Inf]

IsIdent(tok) ==
    /\ tok # <<>>
    /\ \A i \in 1..Len(tok) : tok[i] \in Word
    /\ ~(Len(tok) = 1 /\ tok[1] \in PyKeywords)

IsDotted(s) ==
    LET parts == SplitOn(s, ".")
    IN \A i \in 1..Len(parts) : IsIdent(parts[i])

PyDefHead == <<Lit("def"), Blank1, W1, Blank0, Lit("("), Blank0, Lit(")"), Blank0, Lit(":")>>
PyClassHead == <<Lit("class"), Blank1, W1, Blank0, Lit(":")>>

\* the name a def or class line declares
PyNodeName(line) ==
    LET start == 2 + Run({SP}, line, 2, Inf)
    IN SubSeq(line, start, start + Run(Word, line, start, Inf) - 1)

PyCompound(head, line) ==
    LET e == MatchEnd(head, 1, line, 1)
    IN /\ e # 0
       /\ IsIdent(PyNodeName(line))
       /\ \/ Strip(SubSeq(line, e, Len(line))) = <<>>
          \/ IsDotted(Strip(SubSeq(line, e, Len(line))))

\* the tokenizer reads "\r\n" and "\r" as it reads "\n"
CR == "\r"

RECURSIVE PyNewlines(_)
PyNewlines(content) ==
    IF content = <<>> THEN <<>>
    ELSE IF Head(content) # CR THEN <<Head(content)>> \o PyNewlines(Tail(content))
    ELSE IF Len(content) > 1 /\ content[2] = NL THEN <<NL>> \o PyNewlines(Tail(Tail(content)))
    ELSE <<NL>> \o PyNewlines(Tail(content))

\* the indentation of a line, and the line without it
PyIndent(line) == Run({SP}, line, 1, Inf)
PyBody(line) == SubSeq(line, PyIndent(line) + 1, Len(line))

\* the statement a line without its indentation holds
PyLineKind(line) ==
    IF Strip(line) = <<>> THEN "blank"
    ELSE IF Strip(line)[1] = "#" THEN "comment"
    ELSE IF PyCompound(PyDefHead, line) THEN "FunctionDef"
    ELSE IF PyCompound(PyClassHead, line) THEN "ClassDef"
    ELSE IF Len(line) > 2 /\ line[1] = "async" /\ line[2] = SP
            /\ PyCompound(PyDefHead, PyBody(Tail(line))) THEN "AsyncFunctionDef"
    ELSE IF ReFullMatch(<<Lit("import"), Blank1, W1, Blank0>>, line)
            /\ IsIdent(Split(line)[2]) THEN "Import"
    ELSE IF ReFullMatch(<<Lit("from"), Blank1, W1, Blank1, Lit("import"), Blank1, W1, Blank0>>, line)
            /\ IsIdent(Split(line)[2]) /\ IsIdent(Split(line)[4]) THEN "ImportFrom"
    ELSE IF IsDotted(Strip(line)) THEN "Expr"
    ELSE "SyntaxError"

\* isinstance(node, (ast.FunctionDef, ast.AsyncFunctionDef, ast.ClassDef))
PyDefinitions == {"FunctionDef", "AsyncFunctionDef", "ClassDef"}

\* node.name
PyName(line) ==
    IF PyBody(line)[1] = "async" THEN PyNodeName(PyBody(Tail(PyBody(line))))
    ELSE PyNodeName(PyBody(line))

\* what the parser keeps of a line that holds a statement of this kind;
\* opens says that the line is the header of a definition whose body is
\* the block below it
PyStatement(line, kind) ==
    [kind |-> kind, indent |-> PyIndent(line),
     opens |-> kind \in PyDefinitions /\ Strip(line)[Len(Strip(line))] = ":"]

PyLine(line) == PyStatement(line, PyLineKind(PyBody(line)))

RECURSIVE PyLines(_)
PyLines(lines) ==
    IF lines = <<>> THEN <<>> ELSE <<PyLine(Head(lines))>> \o PyLines(Tail(lines))

\* the tokenizer's indentation stack from line n on: stack holds the open
\* indentation levels, opened says that the last statement was a header.  A
\* block must follow a header, deeper than it; any other line must be at an
\* open level.  FALSE is an IndentationError, which is a SyntaxError.
RECURSIVE PyIndented(_, _, _, _)
PyIndented(parsed, n, stack, opened) ==
    IF n > Len(parsed) THEN ~opened
    ELSE IF parsed[n].kind \in {"blank", "comment"}
    THEN PyIndented(parsed, n + 1, stack, opened)
    ELSE IF opened
    THEN /\ parsed[n].indent > stack[Len(stack)]
         /\ PyIndented(parsed, n + 1, Append(stack, parsed[n].indent), parsed[n].opens)
    ELSE /\ parsed[n].indent \in SetOf(stack)
         /\ PyIndented(parsed, n + 1,
                       SelectSeq(stack, LAMBDA level : level <= parsed[n].indent),
                       parsed[n].opens)

\* ast.parse(content) returns a tree
PyParses(parsed) ==
    /\ \A n \in 1..Len(parsed) : parsed[n].kind # "SyntaxError"
    /\ PyIndented(parsed, 1, <<0>>, FALSE)

\* the last line of the block below a header indented by indent, from line
\* n on; last is the last statement of the block so far
RECURSIVE PyBlockEnd(_, _, _, _)
PyBlockEnd(parsed, n, indent, last) ==
    IF n > Len(parsed) THEN last
    ELSE IF parsed[n].kind \in {"blank", "comment"}
    THEN PyBlockEnd(parsed, n + 1, indent, last)
    ELSE IF parsed[n].indent > indent THEN PyBlockEnd(parsed, n + 1, indent, n)
    ELSE last

\* node.end_lineno of the node declared on line n
PyEndLine(parsed, n) ==
    IF parsed[n].opens THEN PyBlockEnd(parsed, n + 1, parsed[n].indent, n) ELSE n

\* the number of definitions the node declared on line n is nested in
PyDepth(parsed, n) ==
    Cardinality({ h \in 1..(n - 1) : parsed[h].opens /\ PyEndLine(parsed, h) >= n })

\* lines[start_line-1:end_line]
PySlice(lines, start_line, end_line) == SubSeq(lines, start_line, Min2(end_line, Len(lines)))

\* the chunk _chunk_python_code builds for the node declared on line n of
\* the source, which ends on line end_line, from lines number n to end_line
\* of content.split('\n'); "\r" is whitespace for str.split as "\n" is
PythonChunk(lines, source, parsed, n, end_line, chunk_index) ==
    ChunkedDocument(<<chunk_index>>, Join(PySlice(lines, n, end_line), <<NL>>), chunk_index,
                    IF parsed[n].kind \in {"FunctionDef", "AsyncFunctionDef"}
                    THEN "code_function" ELSE "code_class",
                    "python",
                    [NoMeta EXCEPT !.node_type = parsed[n].kind, !.node_name = PyName(source[n])],
                    <<n, end_line>>,
                    WordCount(PyNewlines(Join(PySlice(lines, n, end_line), <<NL>>))))

\* for node in ast.walk(tree): breadth first, so the definitions nested in
\* depth definitions come before the ones nested deeper; from line n on
RECURSIVE PythonLoop(_, _, _, _, _, _)
PythonLoop(lines, source, parsed, depth, n, chunks) ==
    IF depth >= Len(parsed) THEN chunks
    ELSE IF n > Len(parsed) THEN PythonLoop(lines, source, parsed, depth + 1, 1, chunks)
    ELSE IF parsed[n].kind \in PyDefinitions /\ PyDepth(parsed, n) = depth
    THEN PythonLoop(lines, source, parsed, depth, n + 1,
                    Append(chunks,
                           PythonChunk(lines, source, parsed, n, PyEndLine(parsed, n),
                                       Len(chunks))))
    ELSE PythonLoop(lines, source, parsed, depth, n + 1, chunks)

\* the definitions found, or the lines when there is none
PythonOrLines(content, cfg, chunks) ==
    IF chunks = <<>> THEN _chunk_by_lines(content, "python", cfg) ELSE chunks

\* _chunk_python_code once the lines of the source are parsed
PythonParsed(content, cfg, lines, source, parsed) ==
    IF PyParses(parsed)
    THEN PythonOrLines(content, cfg, PythonLoop(lines, source, parsed, 0, 1, <<>>))
    ELSE _chunk_by_lines(content, "python", cfg)

\* lines is content.split('\n'), source the lines ast.parse numbers
PythonSource(content, cfg, lines, source) ==
    PythonParsed(content, cfg, lines, source, PyLines(source))

_chunk_python_code(content, cfg) ==
    PythonSource(content, cfg, SplitOn(content, NL), SplitOn(PyNewlines(content), NL))

\* \([^)]*\)\s*{[^}]*}
ArgsAndBody == <<Lit("("), Not0(")"), Lit(")"), Ws0, Lit("{"), Not0("}"), Lit("}")>>

\* the function/class patterns of _chunk_generic_code
GenericPatterns(language) ==
    IF language \in {"javascript", "typescript"}
    THEN << <<Lit("function"), Ws1, W1, Ws0>> \o ArgsAndBody,
            <<Lit("const"), Ws1, W1, Ws0, Lit("="), Ws0, Lit("("), Not0(")"), Lit(")"),
              Ws0, Lit("="), Lit(">"), Ws0, Lit("{"), Not0("}"), Lit("}")>>,
            <<Lit("class"), Ws1, W1, Ws0, Lit("{"), Not0("}"), Lit("}")>> >>
    ELSE IF language \in {"java", "cpp", "c"}
    THEN << <<Lit("public"), Ws1, Lit("class"), Ws1, W1, Ws0, Lit("{"), Not0("}"), Lit("}")>>,
            <<Lit("private"), Ws1, W1, Ws1, W1, Ws0>> \o ArgsAndBody,
            <<Lit("public"), Ws1, W1, Ws1, W1, Ws0>> \o ArgsAndBody >>
    ELSE << <<Lit("def"), Ws1, W1, Ws0, Lit("("), Not0(")"), Lit(")"), Ws0,
              Lit(":"), Not0(":"), Lit(":")>>,
            <<Lit("class"), Ws1, W1, Ws0, Lit(":"), Not0(":"), Lit(":")>>,
            <<Lit("function"), Ws1, W1, Ws0>> \o ArgsAndBody >>

\* all_matches.extend(re.finditer(pattern, content)) for the patterns k..
RECURSIVE AllMatches(_, _, _)
AllMatches(patterns, k, content) ==
    IF k > Len(patterns) THEN <<>>
    ELSE FindIter(patterns[k], content) \o AllMatches(patterns, k + 1, content)

\* list.sort(key=start): stable insertion of span m into a sorted list
RECURSIVE InsertByStart(_, _)
InsertByStart(sorted, m) ==
    IF sorted = <<>> THEN <<m>>
    ELSE IF sorted[Len(sorted)][1] <= m[1] THEN Append(sorted, m)
    ELSE Append(InsertByStart(SubSeq(sorted, 1, Len(sorted) - 1), m), sorted[Len(sorted)])

RECURSIVE SortByStart(_)
SortByStart(ms) ==
    IF ms = <<>> THEN <<>>
    ELSE InsertByStart(SortByStart(SubSeq(ms, 1, Len(ms) - 1)), ms[Len(ms)])

\* content[:n].count('\n') + 1 for a 0-based n
LineOf(content, n) == Cardinality({i \in 1..n : content[i] = NL}) + 1

\* the chunk _chunk_generic_code builds for the match with span m
GenericChunk(content, m, chunk_index, language) ==
    ChunkedDocument(<<chunk_index>>, SubSeq(content, m[1], m[2] - 1), chunk_index,
                    "code_function", language,
                    [NoMeta EXCEPT !.pattern_matched = TRUE],
                    <<LineOf(content, m[1] - 1), LineOf(content, m[2] - 1)>>,
                    WordCount(SubSeq(content, m[1], m[2] - 1)))

_chunk_generic_code(content, language, cfg) ==
    LET all_matches == SortByStart(AllMatches(GenericPatterns(language), 1, content))
    IN IF all_matches = <<>> THEN _chunk_by_lines(content, language, cfg)
       ELSE [k \in 1..Len(all_matches) |->
                GenericChunk(content, all_matches[k], k - 1, language)]

_chunk_code(content, language, cfg) ==
    IF language = "python" THEN _chunk_python_code(content, cfg)
    ELSE _chunk_generic_code(content, language, cfg)

(***************************************************************************)
(* Content-type and language detection                                      *)
(***************************************************************************)
KwName(kw) == <<Lit(kw), Ws1, W1>>

code_patterns ==
    << <<Lit("def"), Ws1, W1, Ws0, Lit("(")>>,
       KwName("class"),
       KwName("import"),
       <<Lit("from"), Ws1, W1, Ws1, Lit("import")>>,
       KwName("function"),
       KwName("const"),
       KwName("let"),
       KwName("var"),
       <<Lit("public"), Ws1, Lit("class")>>,
       KwName("private"),
       <<Lit("#"), Lit("include"), Ws0, Lit("<")>>,
       KwName("package") >>

_is_code_content(content) ==
    \E k \in 1..Len(code_patterns) : ReSearch(code_patterns[k], content)

\* [pattern, whether it ends in $]
markdown_patterns ==
    << [p |-> <<Lit("#"), Ws1>>, eol |-> FALSE],
       [p |-> <<Lit("*"), Lit("*"), Dot0, Lit("*"), Lit("*")>>, eol |-> TRUE],
       [p |-> <<Lit("*"), Dot0, Lit("*")>>, eol |-> TRUE],
       [p |-> <<Lit(Backtick), Lit(Backtick), Lit(Backtick)>>, eol |-> FALSE],
       [p |-> <<Lit("["), Dot0, Lit("]"), Lit("("), Dot0, Lit(")")>>, eol |-> FALSE],
       [p |-> <<Lit(">"), Ws1>>, eol |-> FALSE],
       [p |-> <<Lit("|"), Ws1, Dot0, Ws1, Lit("|")>>, eol |-> FALSE] >>

IsMarkdownLine(line) ==
    \E k \in 1..Len(markdown_patterns) :
        IF markdown_patterns[k].eol THEN ReFullMatch(markdown_patterns[k].p, line)
        ELSE ReMatch(markdown_patterns[k].p, line)

\* markdown_lines > len(lines) * 0.1
_is_markdown_content(content) ==
    LET lines == SplitOn(content, NL)
        markdown_lines == Cardinality({i \in 1..Len(lines) : IsMarkdownLine(lines[i])})
    IN 10 * markdown_lines > Len(lines)

\* the detectors of a repository file tried in the other order
DetectMarkdownFirst(content, source_type) ==
    IF source_type \in {"github", "branch"}
    THEN IF _is_markdown_content(content) THEN "markdown"
         ELSE IF _is_code_content(content) THEN "code"
         ELSE "text"
    ELSE IF source_type = "web"
    THEN IF _is_markdown_content(content) THEN "markdown" ELSE "text"
    ELSE "text"

_detect_content_type(content, source_type) ==
    IF source_type \in {"github", "branch"}
    THEN IF _is_code_content(content) THEN "code"
         ELSE IF _is_markdown_content(content) THEN "markdown"
         ELSE "text"
    ELSE IF source_type = "web"
    THEN IF _is_markdown_content(content) THEN "markdown" ELSE "text"
    ELSE "text"

Quote == {Apostrophe, DoubleQuote}

\* the languages of language_patterns, in the order the dict declares them
Languages == <<"python", "javascript", "typescript", "java", "cpp", "c", "go", "rust">>

language_patterns(language) ==
    CASE language = "python" ->
           << <<Lit("def"), Ws1, W1, Ws0, Lit("(")>>,
              KwName("import"),
              <<Lit("from"), Ws1, W1, Ws1, Lit("import")>>,
              <<Lit("class"), Ws1, W1, Dot0, Lit(":")>>,
              <<Lit("if"), Ws1, Lit("__name__"), Ws0, Lit("="), Lit("="), Ws0,
                OneOf(Quote), Lit("__main__"), OneOf(Quote)>> >>
      [] language = "javascript" ->
           << KwName("function"), KwName("const"), KwName("let"), KwName("var"),
              <<Lit("console"), Lit("."), Lit("log")>>,
              <<Lit("export"), Ws1, Lit("default")>> >>
      [] language = "typescript" ->
           << KwName("interface"), KwName("type"),
              <<Lit(":"), Ws0, W1, Lit("["), Lit("]")>>,
              <<Lit("Promise"), Lit("<"), W1, Lit(">")>> >>
      [] language = "java" ->
           << <<Lit("public"), Ws1, Lit("class")>>,
              KwName("private"),
              <<Lit("public"), Ws1, Lit("static"), Ws1, Lit("void"), Ws1, Lit("main")>>,
              <<Lit("import"), Ws1, Lit("java"), Lit(".")>> >>
      [] language = "cpp" ->
           << <<Lit("#"), Lit("include"), Ws0, Lit("<")>>,
              <<Lit("std"), Lit(":"), Lit(":")>>,
              KwName("namespace"),
              <<Lit("class"), Ws1, W1, Ws0, Lit("{")>> >>
      [] language = "c" ->
           << <<Lit("#"), Lit("include"), Ws0, Lit("<")>>,
              <<Lit("int"), Ws1, Lit("main"), Ws0, Lit("(")>>,
              <<Lit("printf"), Ws0, Lit("(")>>,
              KwName("struct") >>
      [] language = "go" ->
           << KwName("package"), KwName("func"),
              <<Lit("import"), Ws0, Lit("(")>>,
              <<Lit("fmt"), Lit(".")>> >>
      [] language = "rust" ->
           << KwName("fn"), KwName("use"),
              <<Lit("pub"), Ws1, Lit("fn")>>,
              <<Lit("let"), Ws1, Lit("mut"), Ws1, W1>> >>

\* whether some pattern of the language matches
LanguageMatches(language, content) ==
    \E k \in 1..Len(language_patterns(language)) :
        ReSearch(language_patterns(language)[k], content)

\* for language, patterns in language_patterns.items(): return the first
\* language one of whose patterns matches
_detect_language(content, content_type) ==
    IF content_type # "code" THEN None
    ELSE LET hits == {n \in 1..Len(Languages) : LanguageMatches(Languages[n], content)}
         IN IF hits = {} THEN None
            ELSE Languages[CHOOSE n \in hits : \A m \in hits : n <= m]

(***************************************************************************)
(* ChunkingAgent.process                                                    *)
(***************************************************************************)
NoContentError == "No content provided for chunking"

\* pydantic rejects ChunkedDocument(document_id=None)
ValidationError == "1 validation error for ChunkedDocument"

_chunk_hybrid(content, content_type, language, cfg) ==
    IF content_type = "code" THEN _chunk_code(content, language, cfg)
    ELSE IF content_type = "markdown" THEN _chunk_markdown(content)
    ELSE _chunk_text(content, cfg)

\* the chunks of the strategy process chooses
StrategyChunks(content, content_type, language, cfg) ==
    IF content_type = "code" THEN _chunk_code(content, language, cfg)
    ELSE IF content_type = "markdown" THEN _chunk_markdown(content)
    ELSE IF content_type = "text" THEN _chunk_text(content, cfg)
    ELSE _chunk_hybrid(content, content_type, language, cfg)

AgentResult(success, chunks, content_type, language, error_message) ==
    [success |-> success, chunks |-> chunks, total_chunks |-> Len(chunks),
     content_type |-> content_type, language |-> language,
     error_message |-> error_message]

Failure(error_message) == AgentResult(FALSE, <<>>, None, None, error_message)

\* AgentStatus values set by start_processing and end_processing
start_processing == "busy"
end_processing == "idle"

\* What a call leaves behind: the AgentResult it returned, the status it
\* left, the exception raised inside the try block (None: none) and whether
\* that exception left process.
Returned(result, status, raised) ==
    [result |-> result, status |-> status, raised |-> raised, escaped |-> FALSE]

\* return AgentResult(success=True, data={"chunks": validated_chunks, ...}), or
\* what _validate_chunks raised
Validated(valid, content_type, language) ==
    IF valid.raised THEN Raise(valid.error)
    ELSE Returns(Returned(AgentResult(TRUE, valid.value, content_type, language, None),
                          end_processing, None))

\* the strategy's chunks: the first ChunkedDocument it builds raises when
\* document_id is None
Chunked(chunks, document_id, content_type, language, cfg) ==
    IF chunks # <<>> /\ document_id = None THEN Raise(ValidationError)
    ELSE Validated(_validate_chunks(chunks, cfg), content_type, language)

Dispatched(input_data, content_type, language, cfg) ==
    Chunked(StrategyChunks(input_data.content, content_type, language, cfg),
            input_data.document_id, content_type, language, cfg)

Detected(input_data, content_type, cfg) ==
    Dispatched(input_data, content_type,
               IF cfg.language_detection
               THEN _detect_language(input_data.content, content_type)
               ELSE None,
               cfg)

\* the try block of process, after start_processing
ProcessBody(input_data, cfg) ==
    IF input_data.content = <<>>
    THEN Returns(Returned(Failure(NoContentError), end_processing, None))
    ELSE Detected(input_data,
                  _detect_content_type(input_data.content, input_data.source_type), cfg)

\* the except clause without its call of end_processing
ExceptClauseStaysBusy(error) == Returned(Failure(error), start_processing, error)

\* except Exception as e: return AgentResult(success=False, error_message=str(e),
\* processing_time=self.end_processing())
ExceptClause(error) == Returned(Failure(error), end_processing, error)

\* what the try statement makes of its body
Try(body) == IF body.raised THEN ExceptClause(body.error) ELSE body.value

process(input_data, cfg) == Try(ProcessBody(input_data, cfg))

(***************************************************************************)
(* EvaluationUtils.calculate_retrieval_metrics.  A document is modelled by *)
(* its id (doc.get("id"), None when it has none); relevant_docs by the set *)
(* of its ids.  A metric is an integer number of 1/Scale: round(x, 4).     *)
(***************************************************************************)
Scale == 10000

\* n / d to the nearest 1/unit, by long division: unit is a power of ten
RECURSIVE RoundDiv(_, _, _)
RoundDiv(n, d, unit) ==
    IF unit = 1 THEN (n \div d) + (IF 2 * (n % d) >= d THEN 1 ELSE 0)
    ELSE (n \div d) * unit + RoundDiv((n % d) * 10, d, unit \div 10)

\* round(n / d, 4) for integers n >= 0, d > 0
Round4(n, d) == RoundDiv(n, d, Scale)

\* a gain that grows with the position instead of shrinking
DiscountRising ==
    <<3154649, 3333333, 3562072, 3868528, 4306766, 5000000, 6309298, 10000000>>

\* 10^7 / log2(i + 2) for positions i = 0, 1, 2, ...
Discount ==
    <<10000000, 6309298, 5000000, 4306766, 3868528, 3562072, 3333333, 3154649>>

\* the whole list, whatever k
TakeAll(lst, k) == lst

Take(lst, k) == SubSeq(lst, 1, Min2(k, Len(lst)))

_calculate_mrr(retrieved_docs, relevant_ids) ==
    LET hits == {i \in 1..Len(retrieved_docs) : retrieved_docs[i] \in relevant_ids}
    IN IF hits = {} THEN [n |-> 0, d |-> 1]
       ELSE [n |-> 1, d |-> CHOOSE i \in hits : \A j \in hits : i <= j]

\* dcg and idcg, in units of 10^-7
_calculate_ndcg(retrieved_docs, relevant_ids, k) ==
    LET top == Take(retrieved_docs, k)
        dcg == SumSeq([i \in 1..Len(top) |->
                          IF top[i] \in relevant_ids THEN Discount[i] ELSE 0])
        num_relevant == Min2(Cardinality(relevant_ids), k)
        idcg == SumSeq([i \in 1..num_relevant |-> Discount[i]])
    IN IF idcg > 0 THEN [n |-> dcg, d |-> idcg] ELSE [n |-> 0, d |-> 1]

Metrics(precision, recall, f1_score, mrr, ndcg) ==
    [precision |-> precision, recall |-> recall, f1_score |-> f1_score,
     mrr |-> mrr, ndcg |-> ndcg]

\* the metrics of a non-empty retrieved_docs
RetrievalMetrics(retrieved_docs, relevant_ids, k) ==
    LET retrieved_ids == Take(retrieved_docs, k)
        relevant_retrieved ==
            Cardinality({retrieved_ids[i] : i \in 1..Len(retrieved_ids)}
                        \cap relevant_ids)
        found == retrieved_ids # <<>> /\ relevant_ids # {} /\ relevant_retrieved > 0
        mrr == _calculate_mrr(retrieved_docs, relevant_ids)
        ndcg == _calculate_ndcg(retrieved_docs, relevant_ids, k)
    IN Metrics(
           IF retrieved_ids # <<>>
           THEN Round4(relevant_retrieved, Len(retrieved_ids)) ELSE 0,
           IF relevant_ids # {}
           THEN Round4(relevant_retrieved, Cardinality(relevant_ids)) ELSE 0,
           \* 2pr / (p + r) with p = rr / len(retrieved_ids), r = rr / len(relevant_ids)
           IF found
           THEN Round4(2 * relevant_retrieved,
                       Len(retrieved_ids) + Cardinality(relevant_ids))
           ELSE 0,
           Round4(mrr.n, mrr.d),
           Round4(ndcg.n, ndcg.d))

ZeroDivisionError == "division by zero"

\* without the early return and the guard of the precision: the division
\* by len(retrieved_ids) is reached with no retrieved id
MetricsUnguarded(retrieved_docs, relevant_ids, k) ==
    IF Take(retrieved_docs, k) = <<>> THEN Raise(ZeroDivisionError)
    ELSE Returns(RetrievalMetrics(retrieved_docs, relevant_ids, k))

calculate_retrieval_metrics(retrieved_docs, relevant_ids, k) ==
    IF retrieved_docs = <<>>
    THEN Returns(Metrics(0, 0, 0, 0, 0))
    ELSE Returns(RetrievalMetrics(retrieved_docs, relevant_ids, k))

(***************************************************************************)
(* EvaluationUtils.calculate_generation_metrics.  An answer is a sequence  *)
(* of atoms, each a whole word or one space, with no two words adjacent:   *)
(* the words of str.split() and of \b\w+\b are then the word atoms.  A     *)
(* score is a ratio [n, d] until it is rounded; d = 0 is a division by 0.  *)
(***************************************************************************)
Capitalised == {"Cat"}
Acronyms == {"API"}
Digits == {"42"}
AnswerWords == {"the", "cat"} \cup Capitalised \cup Acronyms \cup Digits

\* str.lower()
LowerAtom(a) == IF a = "Cat" THEN "cat" ELSE IF a = "API" THEN "api" ELSE a
Lower(text) == [i \in 1..Len(text) |-> LowerAtom(text[i])]

\* len(word) of a word of one atom
CharLen(word) == IF word[1] \in Digits THEN 2 ELSE 3

\* set(re.findall(pattern, text))
FindAll(pattern, text) ==
    {SubSeq(text, m[1], m[2] - 1) : m \in SetOf(FindIter(pattern, text))}

Ratio(n, d) == [n |-> n, d |-> d]

\* 1.0 in the unit of the brevity penalty
Unit7 == 10000000

\* np.exp(1 - r / g) for g < r tokens, at [g][r], in units of 10^-7
BrevityPenalty ==
    << <<Unit7, 3678794, 1353353>>,
       <<Unit7, Unit7, 6065307>>,
       <<Unit7, Unit7, Unit7>> >>

\* the division by len(gen_tokens) without the early return
BleuUnguarded(generated, reference) ==
    LET gen_tokens == Split(Lower(generated))
        ref_tokens == Split(Lower(reference))
        overlaps == Cardinality({i \in 1..Len(gen_tokens) : gen_tokens[i] \in SetOf(ref_tokens)})
    IN Ratio(overlaps, Len(gen_tokens))

_calculate_bleu_score(generated, reference) ==
    LET gen_tokens == Split(Lower(generated))
        ref_tokens == Split(Lower(reference))
        overlaps == Cardinality({i \in 1..Len(gen_tokens) : gen_tokens[i] \in SetOf(ref_tokens)})
        bp == IF Len(gen_tokens) >= Len(ref_tokens) THEN Unit7
              ELSE BrevityPenalty[Len(gen_tokens)][Len(ref_tokens)]
    IN IF gen_tokens = <<>> THEN Ratio(0, 1)
       ELSE Ratio(bp * overlaps, Len(gen_tokens) * Unit7)

\* the division by len(ref_tokens) without the early return
RougeUnguarded(generated, reference) ==
    Ratio(Cardinality(SetOf(Split(Lower(generated))) \cap SetOf(Split(Lower(reference)))),
          Cardinality(SetOf(Split(Lower(reference)))))

_calculate_rouge_score(generated, reference) ==
    LET gen_tokens == SetOf(Split(Lower(generated)))
        ref_tokens == SetOf(Split(Lower(reference)))
    IN IF ref_tokens = {} THEN Ratio(0, 1)
       ELSE Ratio(Cardinality(gen_tokens \cap ref_tokens), Cardinality(ref_tokens))

stop_words == {<<"the">>}

\* the set of the key terms: every caller takes set() of the list
_extract_key_terms(text) ==
    {word \in SetOf(Split(Lower(text))) : CharLen(word) > 2 /\ word \notin stop_words}

\* doc.get("content", ""): a document is modelled by its content, None without one
ContentOf(doc) == IF doc = None THEN <<>> ELSE doc

\* " ".join([doc.get("content", "") for doc in context])
ContextText(context) == Join([i \in 1..Len(context) |-> ContentOf(context[i])], <<SP>>)

_calculate_answer_relevance(answer, context) ==
    LET context_terms == _extract_key_terms(ContextText(context))
        answer_terms == _extract_key_terms(answer)
        overlap == Cardinality(answer_terms \cap context_terms)
    IN IF context = <<>> THEN Ratio(0, 1)
       ELSE IF context_terms = {} THEN Ratio(0, 1)
       ELSE Ratio(Min2(overlap, Cardinality(context_terms)), Cardinality(context_terms))

\* [A-Z][a-z]+ [A-Z][a-z]+ and [A-Z][a-z]+ [A-Z][a-z]+ [A-Z][a-z]+
NamePair == <<OneOf(Capitalised), Lit(SP), OneOf(Capitalised)>>
FullName == NamePair \o <<Lit(SP), OneOf(Capitalised)>>

\* numbers, years (no word of the vocabulary has four digits), names, full names
_extract_facts(text) ==
    FindAll(<<OneOf(Digits)>>, text) \cup FindAll(NamePair, text) \cup FindAll(FullName, text)

\* a fact the context does not hold contradicts it
ContradictsUnlessStated(fact, context_facts) == fact \notin context_facts

\* both branches of the loop return False
_is_contradictory(fact, context_facts) == FALSE

_calculate_factual_consistency(answer, context) ==
    LET context_facts == _extract_facts(ContextText(context))
        answer_facts == _extract_facts(answer)
        contradictions ==
            Cardinality({fact \in answer_facts : _is_contradictory(fact, context_facts)})
    IN IF context = <<>> THEN Ratio(0, 1)
       ELSE IF context_facts = {} THEN Ratio(1, 1)
       ELSE IF answer_facts = {} THEN Ratio(1, 1)
       ELSE Ratio(Cardinality(answer_facts) - contradictions, Cardinality(answer_facts))

\* proper nouns, numbers with decimals (no word of the vocabulary has one), acronyms
_extract_key_information(text) ==
    FindAll(NamePair, text) \cup FindAll(<<OneOf(Acronyms)>>, text)

_calculate_answer_completeness(generated, reference) ==
    LET ref_info == _extract_key_information(reference)
        gen_info == _extract_key_information(generated)
    IN IF reference = <<>> THEN Ratio(1, 1)
       ELSE IF ref_info = {} THEN Ratio(1, 1)
       ELSE Ratio(Cardinality(ref_info \cap gen_info), Cardinality(ref_info))

GenerationMetrics(bleu, rouge, relevance, consistency, completeness) ==
    [bleu_score |-> bleu, rouge_score |-> rouge, relevance_score |-> relevance,
     consistency_score |-> consistency, completeness_score |-> completeness]

\* the five scores, rounded; a score whose divisor is 0 raises
Rounded(bleu, rouge, relevance, consistency, completeness) ==
    IF 0 \in {bleu.d, rouge.d, relevance.d, consistency.d, completeness.d}
    THEN Raise(ZeroDivisionError)
    ELSE Returns(GenerationMetrics(Round4(bleu.n, bleu.d), Round4(rouge.n, rouge.d),
                                   Round4(relevance.n, relevance.d),
                                   Round4(consistency.n, consistency.d),
                                   Round4(completeness.n, completeness.d)))

calculate_generation_metrics(generated_answer, reference_answer, context) ==
    Rounded(_calculate_bleu_score(generated_answer, reference_answer),
            _calculate_rouge_score(generated_answer, reference_answer),
            _calculate_answer_relevance(generated_answer, context),
            _calculate_factual_consistency(generated_answer, context),
            _calculate_answer_completeness(generated_answer, reference_answer))

(***************************************************************************)
(* EvaluationUtils.evaluate_response_quality and                           *)
(* TextUtils.calculate_similarity.  A response is a sequence of words,     *)
(* full stops and spaces; the texts compared are sequences of characters.  *)
(***************************************************************************)
\* max(0, x)
NonNegative(x) == IF x < 0 THEN 0 ELSE x

\* sum(len(s.split()) for s in sentences)
SentenceWords(sentences) == SumSeq([i \in 1..Len(sentences) |-> WordCount(sentences[i])])

\* min(max(0, 1 - (avg_sentence_length - 10) / 20), 1.0), with
\* avg_sentence_length = words / len(sentences)
_evaluate_clarity(response) ==
    LET sentences == SplitOn(response, ".")
    IN IF response = <<>> THEN Ratio(0, 1)
       ELSE Ratio(Min2(NonNegative(30 * Len(sentences) - SentenceWords(sentences)),
                       20 * Len(sentences)),
                  20 * Len(sentences))

_evaluate_conciseness(response) ==
    LET word_count == WordCount(response)
    IN IF response = <<>> THEN Ratio(0, 1)
       ELSE IF 50 <= word_count /\ word_count <= 100 THEN Ratio(1, 1)
       ELSE IF word_count < 50 THEN Ratio(word_count, 50)
       ELSE Ratio(NonNegative(200 - word_count), 100)

_evaluate_accuracy(response) == Ratio(1, 2)

\* the indicators that are words of the vocabulary, in lower case
helpful_indicators == {"here", "example"}

_evaluate_helpfulness(response) ==
    LET helpful_count == Cardinality(helpful_indicators \cap SetOf([i \in 1..Len(response) |-> IF response[i] = "Here" THEN "here" ELSE response[i]]))
    IN IF response = <<>> THEN Ratio(0, 1)
       ELSE Ratio(Min2(helpful_count, 5), 5)

\* the branch of the if / elif chain for one criterion
CriterionScore(criterion, response) ==
    IF criterion = "clarity" THEN _evaluate_clarity(response)
    ELSE IF criterion = "conciseness" THEN _evaluate_conciseness(response)
    ELSE IF criterion = "accuracy" THEN _evaluate_accuracy(response)
    ELSE IF criterion = "helpfulness" THEN _evaluate_helpfulness(response)
    ELSE Ratio(0, 1)

\* the dict scores: one key per criterion named
evaluate_response_quality(response, criteria) ==
    Returns([criterion \in SetOf(criteria) |-> CriterionScore(criterion, response)])

\* re.sub(r'[^\w\s]', ' ', text.lower()): the characters compared are lower case
clean_text(text) ==
    [i \in 1..Len(text) |-> IF text[i] \in Punctuation THEN SP ELSE text[i]]

\* len(intersection) / len(union) of the two word sets
WordOverlap(text1, text2) ==
    LET words1 == SetOf(Split(clean_text(text1)))
        words2 == SetOf(Split(clean_text(text2)))
    IN IF words1 \cup words2 = {} THEN Ratio(0, 1)
       ELSE Ratio(Cardinality(words1 \cap words2), Cardinality(words1 \cup words2))

_cosine_similarity(text1, text2) == WordOverlap(text1, text2)

_jaccard_similarity(text1, text2) == WordOverlap(text1, text2)

\* the edit distance the row-by-row loop computes
RECURSIVE levenshtein_distance(_, _)
levenshtein_distance(s1, s2) ==
    IF s1 = <<>> THEN Len(s2)
    ELSE IF s2 = <<>> THEN Len(s1)
    ELSE Min2(Min2(levenshtein_distance(Tail(s1), s2) + 1,
                   levenshtein_distance(s1, Tail(s2)) + 1),
              levenshtein_distance(Tail(s1), Tail(s2))
                  + (IF Head(s1) = Head(s2) THEN 0 ELSE 1))

_levenshtein_similarity(text1, text2) ==
    LET max_length == Max({Len(text1), Len(text2)})
    IN IF max_length = 0 THEN Ratio(1, 1)
       ELSE Ratio(max_length - levenshtein_distance(text1, text2), max_length)

ValueError == "Unknown similarity method"

calculate_similarity(text1, text2, method) ==
    IF text1 = <<>> \/ text2 = <<>> THEN Returns(Ratio(0, 1))
    ELSE IF method = "cosine" THEN Returns(_cosine_similarity(text1, text2))
    ELSE IF method = "jaccard" THEN Returns(_jaccard_similarity(text1, text2))
    ELSE IF method = "levenshtein" THEN Returns(_levenshtein_similarity(text1, text2))
    ELSE Raise(ValueError)

(***************************************************************************)
(* EvaluationUtils.generate_evaluation_report.  A dict is the sequence of  *)
(* its items in insertion order; a value is a str, a number or a dict.     *)
(***************************************************************************)
Item(key, value) == [key |-> key, value |-> value]
Str(s) == [type |-> "str", s |-> s]
Float(x) == [type |-> "float", x |-> x]
Dict(items) == [type |-> "dict", items |-> items]

\* d.get(key): the value of the first item with that key, None without one
Has(items, key) == \E i \in 1..Len(items) : items[i].key = key

Get(items, key) ==
    IF Has(items, key)
    THEN items[CHOOSE i \in 1..Len(items) : items[i].key = key].value
    ELSE None

AttributeError == "'str' object has no attribute 'items'"
TypeError == "unsupported operand type"

\* the <<category, metric>> keys avg_metrics gets
MetricKeys(evaluation_results) ==
    UNION { UNION { { <<evaluation_results[r][c].key, evaluation_results[r][c].value.items[m].key>> :
                       m \in 1..Len(evaluation_results[r][c].value.items) } :
                    c \in 1..Len(evaluation_results[r]) } :
            r \in 1..Len(evaluation_results) }

\* avg_metrics[category][metric] before the statistics: the values appended
RECURSIVE Collected(_, _, _)
Collected(evaluation_results, category, metric) ==
    IF evaluation_results = <<>> THEN <<>>
    ELSE (IF /\ Has(Head(evaluation_results), category)
             /\ Has(Get(Head(evaluation_results), category).items, metric)
          THEN <<Get(Get(Head(evaluation_results), category).items, metric)>>
          ELSE <<>>)
             \o Collected(Tail(evaluation_results), category, metric)

\* the integer part of the square root of q / d, between lo and hi
RECURSIVE FloorSqrt(_, _, _, _)
FloorSqrt(q, d, lo, hi) ==
    IF lo = hi THEN lo
    ELSE LET mid == (lo + hi + 1) \div 2
         IN IF mid * mid <= q \div d THEN FloorSqrt(q, d, mid, hi)
            ELSE FloorSqrt(q, d, lo, mid - 1)

\* round(variance ** 0.5, 4) for the sample variance (n - 1 denominator) of
\* numbers xs given in 1/Scale; 0.0 for fewer than two values
_calculate_std(xs) ==
    LET n == Len(xs)
        q == SumSeq([i \in 1..n |-> (n * xs[i] - SumSeq(xs)) * (n * xs[i] - SumSeq(xs))])
        d == n * n * (n - 1)
        root == FloorSqrt(q, d, 0, 2 * Scale)
    IN IF n < 2 THEN 0
       ELSE IF 4 * (q - (root * root + root) * d) >= d THEN root + 1 ELSE root

\* {"mean": ..., "min": ..., "max": ..., "std": ...} of numbers in 1/Scale
Statistics(xs) ==
    [mean |-> RoundDiv(SumSeq(xs), Len(xs), 1),
     min |-> CHOOSE x \in SetOf(xs) : \A y \in SetOf(xs) : x <= y,
     max |-> Max(SetOf(xs)),
     std |-> _calculate_std(xs)]

\* metrics.get(category, {}).get(metric, {}).get("mean", 0)
MeanOf(metrics, category, metric) ==
    IF <<category, metric>> \in DOMAIN metrics THEN metrics[<<category, metric>>].mean ELSE 0

ImprovePrecision == "Consider improving retrieval precision"
ImproveRecall == "Consider improving retrieval recall"
ImproveConsistency == "Consider improving factual consistency"
ImproveRelevance == "Consider improving answer relevance"
PerformanceGood == "System performance is good"

\* recommendation text if the category was reported and the mean is below the threshold
Advice(metrics, category, metric, threshold, text) ==
    IF (\E key \in DOMAIN metrics : key[1] = category)
        /\ MeanOf(metrics, category, metric) < threshold
    THEN <<text>> ELSE <<>>

_generate_recommendations(metrics) ==
    LET recommendations ==
            Advice(metrics, "retrieval", "precision", 5000, ImprovePrecision)
            \o Advice(metrics, "retrieval", "recall", 5000, ImproveRecall)
            \o Advice(metrics, "generation", "consistency_score", 7000, ImproveConsistency)
            \o Advice(metrics, "generation", "relevance_score", 7000, ImproveRelevance)
    IN IF recommendations = <<>> THEN <<PerformanceGood>> ELSE recommendations

NoResultsError == "No evaluation results provided"

\* {"error": message}
ErrorDict(message) == [error |-> message]

\* the report of results whose categories are all dicts of numbers
Report(evaluation_results, metrics) ==
    [error |-> None,
     summary |-> [total_queries |-> Len(evaluation_results)],
     metrics |-> metrics,
     recommendations |-> _generate_recommendations(metrics)]

generate_evaluation_report(evaluation_results) ==
    IF evaluation_results = <<>> THEN Returns(ErrorDict(NoResultsError))
    \* for metric, value in metrics.items(): metrics is not a dict
    ELSE IF \E r \in 1..Len(evaluation_results) : \E c \in 1..Len(evaluation_results[r]) :
                evaluation_results[r][c].value.type # "dict"
    THEN Raise(AttributeError)
    \* sum(values): a value is not a number
    ELSE IF \E r \in 1..Len(evaluation_results) : \E c \in 1..Len(evaluation_results[r]) :
                \E m \in 1..Len(evaluation_results[r][c].value.items) :
                    evaluation_results[r][c].value.items[m].value.type # "float"
    THEN Raise(TypeError)
    ELSE Returns(Report(evaluation_results,
                        [key \in MetricKeys(evaluation_results) |->
                            Statistics([i \in 1..Len(Collected(evaluation_results, key[1], key[2])) |->
                                           Collected(evaluation_results, key[1], key[2])[i].x])]))

(***************************************************************************)
(* EvaluationService.  A request is the keyword arguments of               *)
(* evaluate_rag_response: generated_answer is None when it is None or      *)
(* missing; relevant_docs, reference_answer and context are empty when     *)
(* they are None, missing or empty, which the code does not tell apart.    *)
(* The service is its two fields and what its last call returned.          *)
(***************************************************************************)
\* k: int = 10
DefaultK == 10

\* datetime.utcnow().isoformat()
Now == "utcnow"

\* the dict calculate_retrieval_metrics returns
RetrievalItems(m) ==
    <<Item("precision", Float(m.precision)), Item("recall", Float(m.recall)),
      Item("f1_score", Float(m.f1_score)), Item("mrr", Float(m.mrr)),
      Item("ndcg", Float(m.ndcg))>>

\* the dict calculate_generation_metrics returns
GenerationItems(m) ==
    <<Item("bleu_score", Float(m.bleu_score)), Item("rouge_score", Float(m.rouge_score)),
      Item("relevance_score", Float(m.relevance_score)),
      Item("consistency_score", Float(m.consistency_score)),
      Item("completeness_score", Float(m.completeness_score))>>

\* round((retrieval_score + generation_score) / 2, 4), the weights in 1/100
_calculate_overall_score(r, g) ==
    RoundDiv(20 * r.precision + 20 * r.recall + 30 * r.f1_score + 15 * r.mrr + 15 * r.ndcg
             + 20 * g.bleu_score + 20 * g.rouge_score + 25 * g.relevance_score
             + 20 * g.consistency_score + 15 * g.completeness_score, 200, 1)

calculate_rag_metrics(retrieval_metrics, generation_metrics) ==
    <<Item("retrieval", Dict(RetrievalItems(retrieval_metrics))),
      Item("generation", Dict(GenerationItems(generation_metrics))),
      Item("overall_score",
           Float(_calculate_overall_score(retrieval_metrics, generation_metrics)))>>

\* len(generated_answer), in characters
AnswerLength(text) ==
    SumSeq([i \in 1..Len(text) |-> IF text[i] = SP THEN 1 ELSE CharLen(<<text[i]>>)])

\* the scores of the three criteria evaluate_rag_response asks for
QualityItems(scores) ==
    <<Item("clarity", Float(scores["clarity"])), Item("conciseness", Float(scores["conciseness"])),
      Item("helpfulness", Float(scores["helpfulness"]))>>

\* if relevant_docs:
HasRelevant(request) == request.relevant_docs # {}

\* if reference_answer and context:
HasReference(request) == request.reference_answer # <<>> /\ request.context # <<>>

\* the dict evaluate_rag_response compiles
\* the dict evaluate_rag_response builds from the metrics it has calculated
Evaluated(request, retrieval_metrics, generation_metrics, quality_metrics) ==
    <<Item("query", Str(request.query)),
      Item("timestamp", Str(Now)),
      Item("retrieval_metrics",
           Dict(IF HasRelevant(request) THEN RetrievalItems(retrieval_metrics) ELSE <<>>)),
      Item("generation_metrics",
           Dict(IF HasReference(request) THEN GenerationItems(generation_metrics) ELSE <<>>)),
      Item("overall_metrics",
           Dict(IF HasRelevant(request) /\ HasReference(request)
                THEN calculate_rag_metrics(retrieval_metrics, generation_metrics)
                ELSE <<>>)),
      Item("quality_metrics", Dict(QualityItems(quality_metrics))),
      Item("metadata",
           Dict(<<Item("retrieved_docs_count", Float(Len(request.retrieved_docs))),
                  Item("context_docs_count", Float(Len(request.context))),
                  Item("answer_length", Float(AnswerLength(request.generated_answer)))>>))>>

EvaluationResult(request) ==
    Evaluated(request,
              calculate_retrieval_metrics(
                  request.retrieved_docs, request.relevant_docs, DefaultK).value,
              calculate_generation_metrics(
                  request.generated_answer, request.reference_answer, request.context).value,
              evaluate_response_quality(
                  request.generated_answer, <<"clarity", "conciseness", "helpfulness">>).value)

NoLenError == "object of type 'NoneType' has no len()"

\* the dict the except clause of evaluate_rag_response returns
ErrorResult(message, query) ==
    <<Item("error", Str(message)), Item("query", Str(query)), Item("timestamp", Str(Now))>>

\* self.evaluation_results.append(evaluation_result); return evaluation_result
Logged(evaluation_results, evaluation_result) ==
    [evaluation_results |-> Append(evaluation_results, evaluation_result),
     returned |-> evaluation_result]

\* the except clause appends as the try block does
AppendsOnError(evaluation_results, request) ==
    [evaluation_results |->
         Append(evaluation_results, ErrorResult(NoLenError, request.query)),
     returned |-> ErrorResult(NoLenError, request.query)]

\* evaluate_rag_response on a service whose log is evaluation_results: the
\* log after the call and the dict returned.  len(generated_answer) raises
\* for an answer that is None, after the metrics and before the append.
evaluate_rag_response(evaluation_results, request) ==
    IF request.generated_answer = None
    THEN [evaluation_results |-> evaluation_results,
          returned |-> ErrorResult(NoLenError, request.query)]
    ELSE Logged(evaluation_results, EvaluationResult(request))

\* the loop of evaluate_batch and of run_benchmark: the log and the list of
\* the dicts returned
RECURSIVE EvaluateAll(_, _, _)
\* results.append(result) for the dict one call returned, and the rest of the loop
Looped(reply, results, requests) ==
    EvaluateAll(reply.evaluation_results, Append(results, reply.returned), requests)

EvaluateAll(evaluation_results, results, requests) ==
    IF requests = <<>> THEN [evaluation_results |-> evaluation_results, results |-> results]
    ELSE Looped(evaluate_rag_response(evaluation_results, Head(requests)), results,
                Tail(requests))

\* what evaluate_batch returns for the list of results of its loop
BatchReply(results, report) ==
    IF report.raised THEN ErrorDict(report.error)
    ELSE [error |-> None, batch_report |-> report.value, individual_results |-> results,
          total_evaluations |-> Len(results)]

evaluate_batch(service, evaluation_data) ==
    [evaluation_results |-> EvaluateAll(service.evaluation_results, <<>>, evaluation_data).evaluation_results,
     benchmark_results |-> service.benchmark_results,
     returned |->
         BatchReply(EvaluateAll(service.evaluation_results, <<>>, evaluation_data).results,
                    generate_evaluation_report(
                        EvaluateAll(service.evaluation_results, <<>>, evaluation_data).results))]

\* benchmark_results[benchmark_name] = benchmark_report
Store(benchmark_results, benchmark_name, benchmark_report) ==
    [name \in DOMAIN benchmark_results \cup {benchmark_name} |->
        IF name = benchmark_name THEN benchmark_report ELSE benchmark_results[name]]

BenchmarkReport(benchmark_name, total_queries, report) ==
    [error |-> None, benchmark_name |-> benchmark_name, evaluation_report |-> report,
     total_queries |-> total_queries]

\* run_benchmark after its loop, with the outcome of generate_evaluation_report
Benchmarked(service, benchmark_name, evaluation_results, total_queries, report) ==
    IF report.raised
    THEN [evaluation_results |-> evaluation_results,
          benchmark_results |-> service.benchmark_results,
          returned |-> ErrorDict(report.error)]
    ELSE [evaluation_results |-> evaluation_results,
          benchmark_results |->
              Store(service.benchmark_results, benchmark_name,
                    BenchmarkReport(benchmark_name, total_queries, report.value)),
          returned |-> BenchmarkReport(benchmark_name, total_queries, report.value)]

run_benchmark(service, benchmark_name, test_queries) ==
    Benchmarked(service, benchmark_name,
                EvaluateAll(service.evaluation_results, <<>>, test_queries).evaluation_results,
                Len(test_queries),
                generate_evaluation_report(
                    EvaluateAll(service.evaluation_results, <<>>, test_queries).results))

\* compare_benchmarks reads benchmark_results only: the names found, or an error
compare_benchmarks(service, benchmark_names) ==
    [service EXCEPT !.returned =
        IF benchmark_names = <<>> THEN ErrorDict("No benchmark names provided")
        ELSE IF SetOf(benchmark_names) \cap DOMAIN service.benchmark_results = {}
        THEN ErrorDict("No valid benchmarks found")
        ELSE [error |-> None,
              benchmarks |-> SetOf(benchmark_names) \cap DOMAIN service.benchmark_results]]

\* get_evaluation_summary reads the two fields only: the counts of its
\* summary (the averages it takes of the log are left out)
Summary(service) ==
    IF service.evaluation_results = <<>> THEN [message |-> "No evaluations performed yet"]
    ELSE [error |-> None, total_evaluations |-> Len(service.evaluation_results),
          benchmarks_count |-> Cardinality(DOMAIN service.benchmark_results)]

get_evaluation_summary(service) == [service EXCEPT !.returned = Summary(service)]

\* export_evaluation_results: the JSON text is modelled by the data it encodes
export_evaluation_results(service, format) ==
    [service EXCEPT !.returned =
        IF format = "json"
        THEN [error |-> None, evaluation_results |-> service.evaluation_results,
              benchmark_results |-> service.benchmark_results, summary |-> Summary(service)]
        ELSE ErrorDict("Unsupported export format")]

\* import_evaluation_results, which raises again what it catches.  The text
\* is modelled by what json.loads makes of it: data.json is FALSE for a text
\* that is no JSON, data.iterable is FALSE for an "evaluation_results" that
\* list.extend rejects (a number); a missing key is an empty value.
import_evaluation_results(service, data, format) ==
    IF format # "json" THEN [service EXCEPT !.returned = Raise("ValueError")]
    ELSE IF ~data.json THEN [service EXCEPT !.returned = Raise("JSONDecodeError")]
    ELSE IF ~data.iterable THEN [service EXCEPT !.returned = Raise("TypeError")]
    ELSE [evaluation_results |-> service.evaluation_results \o data.evaluation_results,
          benchmark_results |->
              [name \in DOMAIN service.benchmark_results \cup DOMAIN data.benchmark_results |->
                  IF name \in DOMAIN data.benchmark_results
                  THEN data.benchmark_results[name]
                  ELSE service.benchmark_results[name]],
          returned |-> Returns(None)]

\* no benchmark stored: {}
NoBenchmarks == [name \in {} |-> None]

clear_evaluation_results(service) ==
    [evaluation_results |-> <<>>, benchmark_results |-> NoBenchmarks, returned |-> Returns(None)]

(***************************************************************************)
(* The agent: one ChunkingAgent with its configuration, and its caller.    *)
(***************************************************************************)
MaxLines == 3
MaxLen == 7
MaxChunkSize == 1
MaxMinSize == 2
MaxMaxSize == 3

\* the lines the documents are made of
LineVocab ==
    { <<>>,
      <<"a">>,
      <<"b", SP, "c">>,
      <<"a", ".", "b", ".", "c">>,
      <<"#", SP, "a">>,
      <<"let", SP, "a">>,
      <<"import", SP, "b">>,
      <<"def", SP, "a", "(", ")", ":", "b">> }

\* the documents: at most MaxLines lines and MaxLen characters
Contents ==
    { c \in UNION { { Join(lines, <<NL>>) : lines \in [1..n -> LineVocab] } : n \in 1..MaxLines } :
        Len(c) <= MaxLen }

SourceTypes == {"github", "web", "text"}

\* input_data with a document_id, and input_data without one
Inputs ==
    [content : Contents, source_type : SourceTypes, document_id : {"doc"}]
    \cup [content : Contents, source_type : {"text"}, document_id : {None}]

Configs ==
    [chunk_size : 0..MaxChunkSize, min_chunk_size : 0..MaxMinSize,
     max_chunk_size : 1..MaxMaxSize, language_detection : BOOLEAN]

NoResult == Failure(None)

\* origin of a call that re-chunks a chunk of the previous result
NoOrigin ==
    [rechunk |-> FALSE, content_type |-> None, language |-> None, content |-> <<>>]

NoInput == [content |-> <<>>, source_type |-> "text", document_id |-> None]

NoExc == [raised |-> None, escaped |-> FALSE]

\* what a caller of the two detectors sees
NoDetection ==
    [called |-> FALSE, content |-> <<>>, source_type |-> "text",
     content_type |-> None, language |-> None]

\* what a caller of calculate_retrieval_metrics sees
NoEvaluation ==
    [called |-> FALSE, retrieved_docs |-> <<>>, relevant_ids |-> {}, k |-> 0,
     out |-> Returns(Metrics(0, 0, 0, 0, 0))]

\* what a caller of calculate_generation_metrics sees
NoGeneration ==
    [called |-> FALSE, generated_answer |-> <<>>, reference_answer |-> <<>>,
     context |-> <<>>, out |-> Returns(GenerationMetrics(0, 0, 0, 0, 0))]

\* what a caller of evaluate_response_quality or calculate_similarity sees
NoScoring ==
    [called |-> FALSE, op |-> None, text |-> <<>>, other |-> <<>>, names |-> <<>>,
     out |-> Returns(Ratio(0, 1))]

\* an EvaluationService after __init__
NoService ==
    [evaluation_results |-> <<>>, benchmark_results |-> NoBenchmarks, returned |-> Returns(None)]

\* the last call of a method of the service
NoCall == [op |-> None]

\* what a caller of _chunk_python_code sees
NoPython == [called |-> FALSE, content |-> <<>>, chunks |-> <<>>]

(***************************************************************************)
(* BaseAgent: the status, the task queue and the record of failed tasks.   *)
(* A uuid4 is the next unused number; a missing retry_count reads as 0, as *)
(* failed_task.get("retry_count", 0) reads it.                             *)
(***************************************************************************)
MaxTasks == 3
MaxCompleted == 1
MaxRetries == 2

\* TaskPriority
Priorities == {"low", "normal", "high", "critical", "urgent"}

\* the ids a caller of complete_task and retry_task passes
TaskIds == {"a", "b"}

Task(id, priority) == [id |-> id, priority |-> priority, status |-> "pending"]

\* get_next_task returns None
NoTask == [id |-> 0, priority |-> None, status |-> None]

\* the calls of process that run at the same time, each named by its task_id
Callers == {"call1", "call2", "call3"}

\* list.insert(pos, x)
Insert(lst, pos, x) == SubSeq(lst, 1, pos) \o <<x>> \o SubSeq(lst, pos + 1, Len(lst))

\* a high task goes to the head of the queue
AtHead(task_queue, i) == 0

RECURSIVE InsertPos(_, _)
\* the position after the urgent tasks at the head of the queue
InsertPos(task_queue, i) ==
    IF i <= Len(task_queue) /\ task_queue[i].priority = "urgent"
    THEN InsertPos(task_queue, i + 1)
    ELSE i - 1

\* a BaseAgent after __init__, with the calls of process in flight on it,
\* the class whose process they run (known from the first call on) and what
\* its last method call returned
BaseAgent ==
    [status |-> "idle", current_task |-> None, task_queue |-> <<>>,
     completed_tasks |-> <<>>, failed_tasks |-> <<>>,
     max_retries |-> MaxRetries, uuid |-> 1,
     calls |-> [c \in Callers |-> "idle"], subclass |-> None,
     op |-> None, arg |-> None, given |-> <<>>, returned |-> FALSE, task |-> NoTask]

add_task_to_queue(self, priority) ==
    [self EXCEPT !.uuid = @ + 1,
                 !.task_queue =
                     IF priority = "urgent" THEN <<Task(self.uuid, priority)>> \o @
                     ELSE IF priority = "high"
                     THEN Insert(@, InsertPos(@, 1), Task(self.uuid, priority))
                     ELSE Append(@, Task(self.uuid, priority))]

get_next_task(self) ==
    IF self.task_queue = <<>>
    THEN [self EXCEPT !.task = NoTask]
    ELSE [self EXCEPT !.task_queue = Tail(@),
                      !.task = [Head(self.task_queue) EXCEPT !.status = "processing"]]

complete_task(self, task_id, success) ==
    IF success
    THEN [self EXCEPT !.completed_tasks = Append(@, task_id)]
    ELSE [self EXCEPT !.failed_tasks = Append(@, [task_id |-> task_id, retry_count |-> 0])]

RECURSIVE FindFailed(_, _, _)
\* the index of the first failed task with this id, 0 when there is none
FindFailed(failed_tasks, task_id, i) ==
    IF i > Len(failed_tasks) THEN 0
    ELSE IF failed_tasks[i].task_id = task_id THEN i
    ELSE FindFailed(failed_tasks, task_id, i + 1)

\* the argument is read, the configuration is not
ArgumentOnly(self, max_retries) ==
    IF max_retries = <<>> THEN self.max_retries + 1 ELSE max_retries[1]

\* max_retries is <<>> for a call without the argument
RetryLimit(self, max_retries) ==
    IF max_retries = <<>> THEN self.max_retries ELSE max_retries[1]

Retried(self, n, limit) ==
    IF n = 0 THEN [self EXCEPT !.returned = FALSE]
    ELSE IF self.failed_tasks[n].retry_count >= limit THEN [self EXCEPT !.returned = FALSE]
    ELSE [add_task_to_queue(self, "high") EXCEPT !.failed_tasks[n].retry_count = @ + 1,
                                                !.returned = TRUE]

retry_task(self, task_id, max_retries) ==
    Retried(self, FindFailed(self.failed_tasks, task_id, 1), RetryLimit(self, max_retries))

clear_queue(self) == [self EXCEPT !.task_queue = <<>>]

shutdown(self) == clear_queue([self EXCEPT !.status = "offline"])

\* what a caller of one chunking strategy, or of _validate_chunks, sees
NoStrategy ==
    [called |-> FALSE, op |-> None, content |-> <<>>,
     cfg |-> [chunk_size |-> 0, min_chunk_size |-> 0, max_chunk_size |-> 1,
              language_detection |-> TRUE],
     chunks |-> <<>>, valid_chunks |-> Returns(<<>>)]

VARIABLES config, status, pc, input_data, result, exc, origin, detection, evaluation, generation, scoring, service, call, python, strategy, base

agent == <<config, status, pc, input_data, result, exc, origin>>

\* the callers of EvaluationUtils
evaluator == <<evaluation, generation, scoring, service, call, python, strategy, base>>

vars == <<config, status, pc, input_data, result, exc, origin, detection, evaluation, generation, scoring, service, call, python, strategy, base>>

Init ==
    /\ config \in Configs
    /\ status = "idle"
    /\ pc = "idle"
    /\ input_data = NoInput
    /\ result = NoResult
    /\ exc = NoExc
    /\ origin = NoOrigin
    /\ detection = NoDetection
    /\ evaluation = NoEvaluation
    /\ generation = NoGeneration
    /\ scoring = NoScoring
    /\ service = NoService
    /\ call = NoCall
    /\ python = NoPython
    /\ strategy = NoStrategy
    /\ base = BaseAgent

\* a caller invokes process(d): start_processing and the reading of the input
Call(d) ==
    /\ pc = "idle"
    /\ input_data' = d
    /\ status' = start_processing
    /\ pc' = "running"
    /\ UNCHANGED <<config, result, exc, origin, detection, evaluator>>

\* the caller invokes process again, on the content of the i-th chunk it got
Rechunk(i) ==
    /\ pc = "returned"
    /\ result.success
    /\ input_data' = [input_data EXCEPT !.content = result.chunks[i].content]
    /\ origin' = [rechunk |-> TRUE, content_type |-> result.content_type,
                  language |-> result.language, content |-> result.chunks[i].content]
    /\ result' = NoResult
    /\ exc' = NoExc
    /\ status' = start_processing
    /\ pc' = "running"
    /\ UNCHANGED <<config, detection, evaluator>>

\* the rest of process, up to its return
Return ==
    /\ pc = "running"
    /\ LET out == process(input_data, config)
       IN /\ result' = out.result
          /\ status' = out.status
          /\ exc' = [raised |-> out.raised, escaped |-> out.escaped]
    /\ pc' = "returned"
    /\ UNCHANGED <<config, input_data, origin, detection, evaluator>>

\* the caller is done with the result
Release ==
    /\ pc = "returned"
    /\ pc' = "idle"
    /\ input_data' = NoInput
    /\ result' = NoResult
    /\ exc' = NoExc
    /\ origin' = NoOrigin
    /\ UNCHANGED <<config, status, detection, evaluator>>

Next ==
    \/ \E d \in Inputs : Call(d)
    \/ \E i \in 1..Len(result.chunks) : Rechunk(i)
    \/ Return
    \/ Release

Spec == Init /\ [][Next]_vars

(***************************************************************************)
(* The detectors on their own: process calls _detect_content_type and then *)
(* _detect_language on every non-empty content.                            *)
(***************************************************************************)
MaxDetectLines == 3

DetectVocab ==
    { <<>>,
      <<"a">>,
      <<"#", SP, "a">>,
      <<"let", SP, "a">>,
      <<"const", SP, "c">>,
      <<"import", SP, "b">>,
      <<"def", SP, "a", "(", ")", ":", "b">> }

DetectContents ==
    UNION { { Join(lines, <<NL>>) : lines \in [1..n -> DetectVocab] } : n \in 1..MaxDetectLines }

DetectSourceTypes == {"github", "branch", "web", "text"}

DefaultConfig ==
    [chunk_size |-> MaxChunkSize, min_chunk_size |-> 1, max_chunk_size |-> MaxMaxSize,
     language_detection |-> TRUE]

InitDetect ==
    /\ config = DefaultConfig
    /\ status = "idle"
    /\ pc = "idle"
    /\ input_data = NoInput
    /\ result = NoResult
    /\ exc = NoExc
    /\ origin = NoOrigin
    /\ detection = NoDetection
    /\ evaluation = NoEvaluation
    /\ generation = NoGeneration
    /\ scoring = NoScoring
    /\ service = NoService
    /\ call = NoCall
    /\ python = NoPython
    /\ strategy = NoStrategy
    /\ base = BaseAgent

\* one call of the two detectors
Detect(content, source_type) ==
    /\ ~detection.called
    /\ LET content_type == _detect_content_type(content, source_type)
       IN detection' = [called |-> TRUE, content |-> content, source_type |-> source_type,
                        content_type |-> content_type,
                        language |-> _detect_language(content, content_type)]
    /\ UNCHANGED <<agent, evaluator>>

NextDetect == \E content \in DetectContents, source_type \in DetectSourceTypes :
                  Detect(content, source_type)

SpecDetect == InitDetect /\ [][NextDetect]_vars

(***************************************************************************)
(* The callers of _chunk_python_code.                                      *)
(***************************************************************************)
MaxPyLines == 3

\* the lines the Python documents are made of
PyVocab ==
    { <<>>,
      <<"a">>,
      <<SP, "a">>,
      <<"def", SP, "a", "(", ")", ":", SP, "b">>,
      <<"class", SP, "c", ":">>,
      <<SP, "def", SP, "b", "(", ")", ":">>,
      <<SP, SP, "async", SP, "def", SP, "a", "(", ")", ":", SP, "b">> }

PyContents == UNION { { Join(lines, <<NL>>) : lines \in [1..n -> PyVocab] } : n \in 1..MaxPyLines }

\* documents of two definitions whose lines end with "\r"
CarriageReturnContents ==
    { Join(lines, <<CR>>) :
        lines \in [1..2 -> { <<"def", SP, "a", "(", ")", ":", SP, "b">>,
                             <<"class", SP, "c", ":", SP, "a">> }] }

\* one call of _chunk_python_code by an agent with the default configuration
ChunkPython(content) ==
    /\ ~python.called
    /\ python' = [called |-> TRUE, content |-> content,
                  chunks |-> _chunk_python_code(content, config)]
    /\ UNCHANGED <<agent, strategy, base, detection, evaluation, generation, scoring, service, call>>

NextPython == \E content \in PyContents \cup CarriageReturnContents : ChunkPython(content)

SpecPython == InitDetect /\ [][NextPython]_vars

(***************************************************************************)
(* The callers of calculate_retrieval_metrics.                             *)
(***************************************************************************)
MaxRetrieved == 3
MaxK == 3

\* document ids; None is the id of a document without an "id" key
Ids == {"d1", "d2", "d3", None}

RetrievedLists == UNION { [1..n -> Ids] : n \in 0..MaxRetrieved }

\* one call of calculate_retrieval_metrics
Evaluate(retrieved_docs, relevant_ids, k) ==
    /\ ~evaluation.called
    /\ evaluation' = [called |-> TRUE, retrieved_docs |-> retrieved_docs,
                      relevant_ids |-> relevant_ids, k |-> k,
                      out |-> calculate_retrieval_metrics(retrieved_docs, relevant_ids, k)]
    /\ UNCHANGED <<agent, strategy, base, python, detection, generation, scoring, service, call>>

NextRetrieval == \E retrieved_docs \in RetrievedLists, relevant_ids \in SUBSET Ids, k \in 0..MaxK :
                     Evaluate(retrieved_docs, relevant_ids, k)

SpecRetrieval == InitDetect /\ [][NextRetrieval]_vars

(***************************************************************************)
(* The callers of calculate_generation_metrics.                            *)
(***************************************************************************)
MaxAnswerLen == 3

\* the answers: words separated by one or more spaces, at most MaxAnswerLen atoms
Answers ==
    { text \in UNION { [1..n -> AnswerWords \cup {SP}] : n \in 0..MaxAnswerLen } :
        \A i \in 1..(Len(text) - 1) : text[i] = SP \/ text[i + 1] = SP }

\* the context lists: no document, a document without content, documents with
\* key terms and facts, and documents with neither
ContextLists ==
    { <<>>, <<None>>, << <<"cat", SP, "42">> >>, << <<"Cat">>, <<"Cat", SP, "the">> >>,
      << <<"the">> >> }

\* the reference answers a generated answer is scored against, besides itself
References ==
    { <<>>, <<SP>>, <<"cat">>, <<"42">>, <<"API">>, <<"Cat", SP, "Cat">>,
      <<"the", SP, "cat">>, <<"cat", SP, "API", SP, "cat">> }

\* one call of calculate_generation_metrics
Generate(generated_answer, reference_answer, context) ==
    /\ ~generation.called
    /\ generation' = [called |-> TRUE, generated_answer |-> generated_answer,
                      reference_answer |-> reference_answer, context |-> context,
                      out |-> calculate_generation_metrics(generated_answer, reference_answer,
                                                           context)]
    /\ UNCHANGED <<agent, strategy, base, python, detection, evaluation, scoring, service, call>>

NextGeneration == \E generated_answer \in Answers, context \in ContextLists :
                      \E reference_answer \in References \cup {generated_answer} :
                          Generate(generated_answer, reference_answer, context)

SpecGeneration == InitDetect /\ [][NextGeneration]_vars

(***************************************************************************)
(* The callers of evaluate_response_quality and calculate_similarity.      *)
(***************************************************************************)
MaxResponseLen == 2
MaxCriteria == 2
MaxTextLen == 2

Responses == UNION { [1..n -> {"cat", "Here", "example", ".", SP}] : n \in 0..MaxResponseLen }

KnownCriteria == {"clarity", "conciseness", "accuracy", "helpfulness"}

CriteriaLists == UNION { [1..n -> KnownCriteria \cup {"fluency"}] : n \in 0..MaxCriteria }

SimilarityTexts == UNION { [1..n -> {"a", "b", ".", SP}] : n \in 0..MaxTextLen }

KnownMethods == {"cosine", "jaccard", "levenshtein"}

\* one call of evaluate_response_quality
Quality(response, criteria) ==
    /\ ~scoring.called
    /\ scoring' = [called |-> TRUE, op |-> "quality", text |-> response, other |-> <<>>,
                   names |-> criteria, out |-> evaluate_response_quality(response, criteria)]
    /\ UNCHANGED <<agent, strategy, base, python, detection, evaluation, generation, service, call>>

\* one call of calculate_similarity
Similarity(text1, text2, method) ==
    /\ ~scoring.called
    /\ scoring' = [called |-> TRUE, op |-> "similarity", text |-> text1, other |-> text2,
                   names |-> <<method>>, out |-> calculate_similarity(text1, text2, method)]
    /\ UNCHANGED <<agent, strategy, base, python, detection, evaluation, generation, service, call>>

NextScoring ==
    \/ \E response \in Responses, criteria \in CriteriaLists : Quality(response, criteria)
    \/ \E text1 \in SimilarityTexts, text2 \in SimilarityTexts, method \in KnownMethods \cup {"hamming"} :
           Similarity(text1, text2, method)

SpecScoring == InitDetect /\ [][NextScoring]_vars

(***************************************************************************)
(* The callers of one EvaluationService.                                   *)
(***************************************************************************)
MaxLog == 3
MaxBatch == 2

\* a request with relevant documents, a reference answer and a context; a
\* request with relevant documents only, one of three retrieved being
\* relevant; and a request without generated_answer
Requests ==
    { [query |-> "q1", retrieved_docs |-> <<"d1", "d2">>, generated_answer |-> <<"cat">>,
       reference_answer |-> <<"cat">>, relevant_docs |-> {"d2"},
       context |-> << <<"cat", SP, "42">> >>],
      [query |-> "q2", retrieved_docs |-> <<"d1", "d2", "d3">>, generated_answer |-> <<"Cat">>,
       reference_answer |-> <<>>, relevant_docs |-> {"d3"}, context |-> <<>>],
      [query |-> "q3", retrieved_docs |-> <<>>, generated_answer |-> None,
       reference_answer |-> <<>>, relevant_docs |-> {}, context |-> <<>>] }

RequestLists == UNION { [1..n -> Requests] : n \in 0..MaxBatch }

BenchmarkNames == {"b1"}

\* a result written by hand, every category a dict of numbers
HandMade(category, precision) ==
    <<Item(category, Dict(<<Item("precision", Float(precision)), Item("recall", Float(Scale))>>))>>

HandMadeResults ==
    { <<HandMade("retrieval", 4000), HandMade("retrieval", 2000)>>,
      <<HandMade("retrieval", 4000), HandMade("retrieval", Scale)>>,
      <<HandMade("retrieval_metrics", 4000), HandMade("retrieval_metrics", 2000)>>,
      <<HandMade("retrieval_metrics", Scale)>> }

\* the texts imported: no JSON, a JSON text with a number for
\* "evaluation_results", the text "{}", and the text the service exports
ImportedTexts == {"no json", "number", "{}", "exported"}

\* what json.loads makes of a text
Loaded(text, exported) ==
    [json |-> text # "no json",
     iterable |-> text # "number",
     evaluation_results |-> IF text = "exported" THEN exported.evaluation_results ELSE <<>>,
     benchmark_results |-> IF text = "exported" THEN exported.benchmark_results ELSE NoBenchmarks]

\* the service after a call of evaluate_rag_response
Replied(self, reply) ==
    [self EXCEPT !.evaluation_results = reply.evaluation_results,
                 !.returned = Dict(reply.returned)]

\* await evaluate_rag_response(**request)
EvaluateRag(request) ==
    /\ Len(service.evaluation_results) < MaxLog
    /\ service' = Replied(service, evaluate_rag_response(service.evaluation_results, request))
    /\ call' = [op |-> "evaluate_rag_response", requests |-> <<request>>]
    /\ UNCHANGED <<agent, strategy, base, python, detection, evaluation, generation, scoring>>

EvaluateBatch(evaluation_data) ==
    /\ Len(service.evaluation_results) + Len(evaluation_data) <= MaxLog
    /\ service' = evaluate_batch(service, evaluation_data)
    /\ call' = [op |-> "evaluate_batch", requests |-> evaluation_data]
    /\ UNCHANGED <<agent, strategy, base, python, detection, evaluation, generation, scoring>>

RunBenchmark(benchmark_name, test_queries) ==
    /\ Len(service.evaluation_results) + Len(test_queries) <= MaxLog
    /\ service' = run_benchmark(service, benchmark_name, test_queries)
    /\ call' = [op |-> "run_benchmark", requests |-> test_queries]
    /\ UNCHANGED <<agent, strategy, base, python, detection, evaluation, generation, scoring>>

CompareBenchmarks(benchmark_names) ==
    /\ service' = compare_benchmarks(service, benchmark_names)
    /\ call' = [op |-> "compare_benchmarks"]
    /\ UNCHANGED <<agent, strategy, base, python, detection, evaluation, generation, scoring>>

GetSummary ==
    /\ service' = get_evaluation_summary(service)
    /\ call' = [op |-> "get_evaluation_summary"]
    /\ UNCHANGED <<agent, strategy, base, python, detection, evaluation, generation, scoring>>

Export(format) ==
    /\ service' = export_evaluation_results(service, format)
    /\ call' = [op |-> "export_evaluation_results"]
    /\ UNCHANGED <<agent, strategy, base, python, detection, evaluation, generation, scoring>>

Import(data, format) ==
    /\ Len(service.evaluation_results) + Len(Loaded(data, service).evaluation_results) <= MaxLog
    /\ service' = import_evaluation_results(service, Loaded(data, service), format)
    /\ call' = [op |-> "import_evaluation_results"]
    /\ UNCHANGED <<agent, strategy, base, python, detection, evaluation, generation, scoring>>

Clear ==
    /\ service' = clear_evaluation_results(service)
    /\ call' = [op |-> "clear_evaluation_results"]
    /\ UNCHANGED <<agent, strategy, base, python, detection, evaluation, generation, scoring>>

\* a caller of generate_evaluation_report with results of its own
GenerateReport(results) ==
    /\ service' = [service EXCEPT !.returned = generate_evaluation_report(results)]
    /\ call' = [op |-> "generate_evaluation_report", results |-> results]
    /\ UNCHANGED <<agent, strategy, base, python, detection, evaluation, generation, scoring>>

NextService ==
    \/ \E request \in Requests : EvaluateRag(request)
    \/ \E evaluation_data \in RequestLists : EvaluateBatch(evaluation_data)
    \/ \E benchmark_name \in BenchmarkNames, test_queries \in RequestLists :
           RunBenchmark(benchmark_name, test_queries)
    \/ \E benchmark_names \in {<<>>, <<"b1">>, <<"b1", "b2">>} :
           CompareBenchmarks(benchmark_names)
    \/ GetSummary
    \/ \E format \in {"json", "csv"} : Export(format)
    \/ \E data \in ImportedTexts, format \in {"json", "csv"} : Import(data, format)
    \/ Clear
    \/ \E results \in HandMadeResults : GenerateReport(results)

SpecService == InitDetect /\ [][NextService]_vars

(***************************************************************************)
(* The strategies on their own: process calls one strategy on the content  *)
(* and then _validate_chunks on the chunks it returned.                    *)
(***************************************************************************)
MaxHeadingLines == 2
MaxWindow == 2
MaxSentences == 5
MaxFallbackLines == 7

\* the lines the markdown documents are made of
MarkdownVocab ==
    { <<>>,
      <<"a">>,
      <<"#", SP, "a">>,
      <<"#", "#", SP, "b", SP, "c", SP, "a", SP, "b">>,
      <<"#", "a">>,
      <<"#", "#", "#", "#", "#", "#", "#", SP, "a">> }

\* '# Title / Body text. / (blank) / ## Sub / More text.'
ExampleMarkdown ==
    Join(<< <<"#", SP, "a">>, <<"b", SP, "c", ".">>, <<>>,
            <<"#", "#", SP, "b">>, <<"c", SP, "a", ".">> >>, <<NL>>)

MarkdownContents ==
    {ExampleMarkdown} \cup
    UNION { { Join(lines, <<NL>>) : lines \in [1..n -> MarkdownVocab] } : n \in 1..MaxHeadingLines }

\* one paragraph of sentences that end with ". "
SentenceVocab == { <<"a">>, <<"b", SP, "c">> }

Paragraph(sentences) == Join(sentences, <<".", SP>>) \o <<".">>

TextContents ==
    UNION { { Paragraph(sentences) : sentences \in [1..n -> SentenceVocab] } : n \in 1..MaxSentences }

\* the lines of the documents the fallback chunks
FallbackVocab == { <<>>, <<"a">> }

FallbackContents ==
    UNION { { Join(lines, <<NL>>) : lines \in [1..n -> FallbackVocab] } : n \in 1..MaxFallbackLines }

\* the configurations of the agent that runs the strategies
StrategyConfigs ==
    [chunk_size : 0..MaxWindow, min_chunk_size : {0, MaxMinSize},
     max_chunk_size : {1, MaxMaxSize}, language_detection : {TRUE}]

\* the strategy has returned chunks: process goes on with _validate_chunks
Strategy(op, content, cfg, chunks) ==
    [called |-> TRUE, op |-> op, content |-> content, cfg |-> cfg,
     chunks |-> chunks, valid_chunks |-> _validate_chunks(chunks, cfg)]

ChunkMarkdown(content, cfg) ==
    /\ ~strategy.called
    /\ strategy' = Strategy("_chunk_markdown", content, cfg, _chunk_markdown(content))
    /\ UNCHANGED <<agent, base, python, detection, evaluation, generation, scoring, service, call>>

ChunkText(content, cfg) ==
    /\ ~strategy.called
    /\ strategy' = Strategy("_chunk_text", content, cfg, _chunk_text(content, cfg))
    /\ UNCHANGED <<agent, base, python, detection, evaluation, generation, scoring, service, call>>

ChunkByLines(content, cfg) ==
    /\ ~strategy.called
    /\ strategy' = Strategy("_chunk_by_lines", content, cfg,
                             _chunk_by_lines(content, "python", cfg))
    /\ UNCHANGED <<agent, base, python, detection, evaluation, generation, scoring, service, call>>

NextStrategy ==
    \/ \E content \in MarkdownContents, cfg \in StrategyConfigs : ChunkMarkdown(content, cfg)
    \/ \E content \in TextContents, cfg \in StrategyConfigs : ChunkText(content, cfg)
    \/ \E content \in FallbackContents, cfg \in StrategyConfigs : ChunkByLines(content, cfg)

SpecStrategy == InitDetect /\ [][NextStrategy]_vars

(***************************************************************************)
(* The task queue of a BaseAgent: one action per method call.              *)
(***************************************************************************)
\* max_retries of a call of retry_task: <<>> when the argument is left out
RetryLimits == {<<>>} \cup {<<m>> : m \in 0..MaxRetries}

\* the method called last, its first argument and the max_retries it was given
Called(self, op, arg, given) == [self EXCEPT !.op = op, !.arg = arg, !.given = given]

AddTask(priority) ==
    /\ base.uuid <= MaxTasks
    /\ base' = Called(add_task_to_queue(base, priority), "add_task_to_queue", priority, <<>>)
    /\ UNCHANGED <<agent, strategy, python, detection, evaluation, generation, scoring, service, call>>

GetNextTask ==
    /\ base' = Called(get_next_task(base), "get_next_task", None, <<>>)
    /\ UNCHANGED <<agent, strategy, python, detection, evaluation, generation, scoring, service, call>>

CompleteTask(task_id, success) ==
    /\ Len(base.completed_tasks) + Len(base.failed_tasks) < MaxCompleted
    /\ base' = Called(complete_task(base, task_id, success), "complete_task", task_id, <<>>)
    /\ UNCHANGED <<agent, strategy, python, detection, evaluation, generation, scoring, service, call>>

RetryTask(task_id, max_retries) ==
    /\ base.uuid <= MaxTasks
    /\ base' = Called(retry_task(base, task_id, max_retries), "retry_task", task_id,
                      max_retries)
    /\ UNCHANGED <<agent, strategy, python, detection, evaluation, generation, scoring, service, call>>

ClearQueue ==
    /\ base' = Called(clear_queue(base), "clear_queue", None, <<>>)
    /\ UNCHANGED <<agent, strategy, python, detection, evaluation, generation, scoring, service, call>>

NextQueue ==
    \/ \E priority \in Priorities : AddTask(priority)
    \/ GetNextTask
    \/ \E task_id \in TaskIds, success \in BOOLEAN : CompleteTask(task_id, success)
    \/ \E task_id \in TaskIds, max_retries \in RetryLimits : RetryTask(task_id, max_retries)
    \/ ClearQueue

SpecQueue == InitDetect /\ [][NextQueue]_vars

(***************************************************************************)
(* The status of a BaseAgent under calls of process that overlap: a call   *)
(* of BaseAgent.process is four steps, one per assignment to status and to *)
(* current_task; a call of ChunkingAgent.process is start_processing and,  *)
(* on each of its returns, end_processing.                                 *)
(***************************************************************************)
Shutdown ==
    /\ base' = Called(shutdown(base), "shutdown", None, <<>>)
    /\ UNCHANGED <<agent, strategy, python, detection, evaluation, generation, scoring, service, call>>

StartProcessing ==
    /\ base' = Called([base EXCEPT !.status = start_processing], "start_processing", None, <<>>)
    /\ UNCHANGED <<agent, strategy, python, detection, evaluation, generation, scoring, service, call>>

EndProcessing ==
    /\ base' = Called([base EXCEPT !.status = end_processing], "end_processing", None, <<>>)
    /\ UNCHANGED <<agent, strategy, python, detection, evaluation, generation, scoring, service, call>>

\* self.status = AgentStatus.BUSY
ProcessBusy(c) ==
    /\ base.calls[c] = "idle"
    /\ base.subclass \in {None, "BaseAgent"}
    /\ base' = [base EXCEPT !.status = "busy", !.subclass = "BaseAgent",
                            !.calls[c] = "started", !.op = "process", !.arg = c]
    /\ UNCHANGED <<agent, strategy, python, detection, evaluation, generation, scoring, service, call>>

\* self.current_task = task_id, then _validate_input and _process_task
ProcessTask(c) ==
    /\ base.calls[c] = "started"
    /\ base' = [base EXCEPT !.current_task = c, !.calls[c] = "running", !.op = "process",
                            !.arg = c]
    /\ UNCHANGED <<agent, strategy, python, detection, evaluation, generation, scoring, service, call>>

\* finally: self.status = AgentStatus.IDLE
ProcessIdle(c) ==
    /\ base.calls[c] = "running"
    /\ base' = [base EXCEPT !.status = "idle", !.calls[c] = "finally", !.op = "process",
                            !.arg = c]
    /\ UNCHANGED <<agent, strategy, python, detection, evaluation, generation, scoring, service, call>>

\* finally: self.current_task = None, and the call returns
ProcessReturn(c) ==
    /\ base.calls[c] = "finally"
    /\ base' = [base EXCEPT !.current_task = None, !.calls[c] = "idle", !.op = "process",
                            !.arg = c]
    /\ UNCHANGED <<agent, strategy, python, detection, evaluation, generation, scoring, service, call>>

\* ChunkingAgent.process: self.start_processing()
ChunkBegin(c) ==
    /\ base.calls[c] = "idle"
    /\ base.subclass \in {None, "ChunkingAgent"}
    /\ base' = [base EXCEPT !.status = start_processing, !.subclass = "ChunkingAgent",
                            !.calls[c] = "chunking", !.op = "process", !.arg = c]
    /\ UNCHANGED <<agent, strategy, python, detection, evaluation, generation, scoring, service, call>>

\* ChunkingAgent.process: self.end_processing() on the way out
ChunkEnd(c) ==
    /\ base.calls[c] = "chunking"
    /\ base' = [base EXCEPT !.status = end_processing, !.calls[c] = "idle", !.op = "process",
                            !.arg = c]
    /\ UNCHANGED <<agent, strategy, python, detection, evaluation, generation, scoring, service, call>>

NextProcess ==
    \/ \E c \in Callers : ProcessBusy(c)
    \/ \E c \in Callers : ProcessTask(c)
    \/ \E c \in Callers : ProcessIdle(c)
    \/ \E c \in Callers : ProcessReturn(c)
    \/ \E c \in Callers : ChunkBegin(c)
    \/ \E c \in Callers : ChunkEnd(c)

SpecProcess == InitDetect /\ [][NextProcess]_vars

\* one caller at a time, who also shuts the agent down and uses the queue
NextLifecycle ==
    \/ Shutdown
    \/ StartProcessing
    \/ EndProcessing
    \/ ProcessBusy("call1")
    \/ ProcessTask("call1")
    \/ ProcessIdle("call1")
    \/ ProcessReturn("call1")
    \/ ChunkBegin("call1")
    \/ ChunkEnd("call1")
    \/ AddTask("normal")
    \/ CompleteTask("a", FALSE)
    \/ RetryTask("a", <<>>)

SpecLifecycle == InitDetect /\ [][NextLifecycle]_vars

(***************************************************************************)
(* Properties of process                                                    *)
(***************************************************************************)
Done == pc = "returned"

Tokens(content) == {Split(content)[n] : n \in 1..Len(Split(content))}

InBounds(content) ==
    /\ config.min_chunk_size <= WordCount(content)
    /\ WordCount(content) <= config.max_chunk_size

\* C1: every chunk process returns has a whitespace-word count between
\* min_chunk_size and max_chunk_size, whatever the input and the configuration.
C1_ChunksWithinBounds ==
    Done => \A i \in 1..Len(result.chunks) : InBounds(result.chunks[i].content)

\* C2: process on the empty content returns success = true with zero chunks.
C2_EmptyContentSucceeds ==
    Done /\ input_data.content = <<>> => result.success /\ result.chunks = <<>>

\* C3: no exception leaves process: one raised inside comes back as an
\* AgentResult with success = False and its message, and the agent's status
\* is IDLE on every return path.
C3_NoExceptionEscapes ==
    Done => /\ ~exc.escaped
            /\ status = "idle"
            /\ exc.raised # None =>
                   ~result.success /\ result.error_message = exc.raised

\* an exception was raised while chunking a non-empty content
C3_Witness ==
    Done /\ input_data.content # <<>> /\ exc.raised \in {RangeError, ValidationError}

\* C7: the chunk at position i of the returned list has chunk_index = i.
C7_IndexIsPosition ==
    Done => \A i \in 1..Len(result.chunks) : result.chunks[i].chunk_index = i - 1

\* C4: no token is dropped: every whitespace token of the content occurs in
\* the content of at least one chunk a successful process returns.
C4_NoTokenDropped ==
    Done /\ result.success =>
        \A tok \in Tokens(input_data.content) :
            \E i \in 1..Len(result.chunks) : tok \in Tokens(result.chunks[i].content)

Covers(chunk, content) == Split(chunk.content) = Split(content)

\* C5: for a non-empty content with fewer whitespace tokens than
\* min_chunk_size, process returns zero chunks or exactly one chunk that
\* covers the whole input, never two or more.
C5_ShortInputOneChunk ==
    Done /\ input_data.content # <<>>
         /\ WordCount(input_data.content) < config.min_chunk_size =>
        \/ Len(result.chunks) = 0
        \/ Len(result.chunks) = 1 /\ Covers(result.chunks[1], input_data.content)

\* C6: process on the content of a returned chunk whose size is within the
\* bounds, under the same configuration and with the same content type,
\* returns exactly one chunk, with that content.
C6_RechunkIsFixedPoint ==
    Done /\ origin.rechunk /\ InBounds(origin.content)
         /\ _detect_content_type(input_data.content, input_data.source_type)
                = origin.content_type =>
        /\ result.success
        /\ Len(result.chunks) = 1
        /\ result.chunks[1].content = origin.content

(***************************************************************************)
(* Properties of the detectors                                              *)
(***************************************************************************)
MarkdownLines(content) ==
    Cardinality({i \in 1..Len(SplitOn(content, NL)) : IsMarkdownLine(SplitOn(content, NL)[i])})

\* strictly more than 10% of the lines match a markdown pattern
MarkdownOverTenth(content) == 10 * MarkdownLines(content) > Len(SplitOn(content, NL))

\* code first, then markdown, then text
Battery(content) ==
    IF _is_code_content(content) THEN "code"
    ELSE IF MarkdownOverTenth(content) THEN "markdown"
    ELSE "text"

\* C8 as stated: whenever the detectors infer the type (repository files and
\* web pages), a content with a code pattern is code, else it is markdown
\* iff more than 10% of its lines match a markdown pattern, else text.
C8_FixedOrderWheneverInferred ==
    detection.called /\ detection.source_type \in {"github", "branch", "web"} =>
        detection.content_type = Battery(detection.content)

\* C8: for source_type github or branch, a content with a code pattern is
\* code whatever its markdown lines, else markdown iff more than 10% of its
\* lines match a markdown pattern, else text; for source_type web the code
\* patterns are not tried: markdown iff more than 10%, else text; for every
\* other source_type the content is text.
C8_OrderBySourceType ==
    detection.called =>
        /\ detection.source_type \in {"github", "branch"} =>
               detection.content_type = Battery(detection.content)
        /\ detection.source_type = "web" =>
               detection.content_type =
                   IF MarkdownOverTenth(detection.content) THEN "markdown" ELSE "text"
        /\ detection.source_type \notin {"github", "branch", "web"} =>
               detection.content_type = "text"

\* a repository file with a code pattern and markdown lines is code
C8_Witness ==
    /\ detection.called
    /\ detection.source_type = "github"
    /\ _is_code_content(detection.content)
    /\ MarkdownOverTenth(detection.content)
    /\ detection.content_type = "code"

\* the number of matches of the idiom patterns of a language
IdiomScore(language, content) ==
    SumSeq([k \in 1..Len(language_patterns(language)) |->
               Len(FindIter(language_patterns(language)[k], content))])

\* the first declared of the languages with the highest score, None when
\* no idiom matches
HighestScoring(content) ==
    LET best == {n \in 1..Len(Languages) :
                    /\ IdiomScore(Languages[n], content) > 0
                    /\ \A m \in 1..Len(Languages) :
                           IdiomScore(Languages[m], content)
                               <= IdiomScore(Languages[n], content)}
    IN IF best = {} THEN None
       ELSE Languages[CHOOSE n \in best : \A m \in best : n <= m]

\* C9: for code content the detected language is the one with the highest
\* count of idiom matches, the first declared among equals.
C9_HighestScoreWins ==
    detection.called /\ detection.content_type = "code" =>
        detection.language = HighestScoring(detection.content)

(***************************************************************************)
(* Properties of calculate_retrieval_metrics                                *)
(***************************************************************************)
\* C10: with an empty retrieved list the five metrics are 0.0, for every
\* relevant set and every k, and nothing is raised.
C10_EmptyRetrievedAllZero ==
    evaluation.called /\ evaluation.retrieved_docs = <<>> =>
        /\ ~evaluation.out.raised
        /\ evaluation.out.value = Metrics(0, 0, 0, 0, 0)

\* nothing retrieved, with relevant documents and k > 0
C10_Witness ==
    /\ evaluation.called
    /\ evaluation.retrieved_docs = <<>>
    /\ evaluation.relevant_ids # {}
    /\ evaluation.k > 0
    /\ ~evaluation.out.raised

One == Scale

\* the ids of a list of documents
IdSet(docs) == {docs[i] : i \in 1..Len(docs)}

\* C11: a non-empty retrieved list scored against the set of its own ids
\* with k = len(retrieved) has precision = recall = f1_score = mrr = ndcg = 1.0.
C11_PerfectMatch ==
    /\ evaluation.called
    /\ evaluation.retrieved_docs # <<>>
    /\ evaluation.relevant_ids = IdSet(evaluation.retrieved_docs)
    /\ evaluation.k = Len(evaluation.retrieved_docs)
    => /\ ~evaluation.out.raised
       /\ evaluation.out.value = Metrics(One, One, One, One, One)

InUnit(x) == 0 <= x /\ x <= One

\* C12: for every retrieved list (repeated or missing ids included), every
\* relevant set and every k >= 0, each of the five metrics lies in [0, 1].
C12_MetricsInUnitInterval ==
    evaluation.called =>
        /\ ~evaluation.out.raised
        /\ InUnit(evaluation.out.value.precision)
        /\ InUnit(evaluation.out.value.recall)
        /\ InUnit(evaluation.out.value.f1_score)
        /\ InUnit(evaluation.out.value.mrr)
        /\ InUnit(evaluation.out.value.ndcg)

\* the reference definitions, on retrieved[:k] as a list and relevant as a set
RefTop(retrieved, k) == [i \in 1..(IF k < Len(retrieved) THEN k ELSE Len(retrieved)) |-> retrieved[i]]
RefHits(retrieved, relevant, k) == Cardinality(IdSet(RefTop(retrieved, k)) \cap relevant)
RefPrecision(retrieved, relevant, k) ==
    IF RefTop(retrieved, k) = <<>> THEN 0
    ELSE Round4(RefHits(retrieved, relevant, k), Len(RefTop(retrieved, k)))
RefRecall(retrieved, relevant, k) ==
    IF relevant = {} THEN 0
    ELSE Round4(RefHits(retrieved, relevant, k), Cardinality(relevant))
\* 2pr / (p + r) for p = h / n and r = h / m, both multiplied by n * m
RefF1(retrieved, relevant, k) ==
    LET h == RefHits(retrieved, relevant, k)
        n == Len(RefTop(retrieved, k))
        m == Cardinality(relevant)
    IN IF h = 0 THEN 0 ELSE Round4(2 * h * h, h * m + h * n)
RECURSIVE RefRank(_, _, _)
\* the 1-based rank of the first relevant item at or after position i, 0 if none
RefRank(retrieved, relevant, i) ==
    IF i > Len(retrieved) THEN 0
    ELSE IF retrieved[i] \in relevant THEN i
    ELSE RefRank(retrieved, relevant, i + 1)
RefMrr(retrieved, relevant) ==
    IF RefRank(retrieved, relevant, 1) = 0 THEN 0
    ELSE Round4(1, RefRank(retrieved, relevant, 1))

\* C13: precision, recall, f1_score and mrr agree with the reference
\* definitions: hits of retrieved[:k] over its length, hits over |relevant|
\* (0 if relevant is empty), their harmonic mean (0 if both are 0), and the
\* reciprocal rank of the first relevant item of retrieved (0 if none).
C13_AgreesWithReference ==
    evaluation.called =>
        /\ ~evaluation.out.raised
        /\ evaluation.out.value.precision =
               RefPrecision(evaluation.retrieved_docs, evaluation.relevant_ids, evaluation.k)
        /\ evaluation.out.value.recall =
               RefRecall(evaluation.retrieved_docs, evaluation.relevant_ids, evaluation.k)
        /\ evaluation.out.value.f1_score =
               RefF1(evaluation.retrieved_docs, evaluation.relevant_ids, evaluation.k)
        /\ evaluation.out.value.mrr =
               RefMrr(evaluation.retrieved_docs, evaluation.relevant_ids)

\* retrieved = [a, b, c], relevant = {b}, k = 3: precision 0.3333, recall 1.0, mrr 0.5
C13_Witness ==
    /\ evaluation.called
    /\ evaluation.retrieved_docs = <<"d1", "d2", "d3">>
    /\ evaluation.relevant_ids = {"d2"}
    /\ evaluation.k = 3
    /\ evaluation.out.value.precision = 3333
    /\ evaluation.out.value.recall = One
    /\ evaluation.out.value.f1_score = 5000
    /\ evaluation.out.value.mrr = 5000

\* retrieved with the items at positions i and j exchanged
Swap(retrieved, i, j) ==
    [n \in 1..Len(retrieved) |->
        IF n = i THEN retrieved[j] ELSE IF n = j THEN retrieved[i] ELSE retrieved[n]]

\* a relevant item at i and a non-relevant item at a later position j
Demotions(retrieved, relevant) ==
    {p \in (1..Len(retrieved)) \X (1..Len(retrieved)) :
        p[1] < p[2] /\ retrieved[p[1]] \in relevant /\ retrieved[p[2]] \notin relevant}

NdcgOf(retrieved, relevant, k) == calculate_retrieval_metrics(retrieved, relevant, k).value.ndcg

\* C14: for fixed relevant set and k, exchanging a relevant item with a
\* non-relevant item at a later position never increases ndcg.
C14_NdcgMonotone ==
    evaluation.called =>
        \A p \in Demotions(evaluation.retrieved_docs, evaluation.relevant_ids) :
            NdcgOf(Swap(evaluation.retrieved_docs, p[1], p[2]),
                   evaluation.relevant_ids, evaluation.k)
              <= evaluation.out.value.ndcg

\* a demotion inside the top k that lowers ndcg strictly
C14_Witness ==
    /\ evaluation.called
    /\ \E p \in Demotions(evaluation.retrieved_docs, evaluation.relevant_ids) :
           /\ p[2] <= evaluation.k
           /\ NdcgOf(Swap(evaluation.retrieved_docs, p[1], p[2]),
                     evaluation.relevant_ids, evaluation.k)
                < evaluation.out.value.ndcg

(***************************************************************************)
(* Properties of calculate_generation_metrics                               *)
(***************************************************************************)
\* C15: scoring an answer against itself as the reference gives
\* bleu_score = 1.0 and rouge_score = 1.0, for every answer and context.
C15_SelfScoreIsOne ==
    generation.called /\ generation.reference_answer = generation.generated_answer =>
        /\ ~generation.out.raised
        /\ generation.out.value.bleu_score = One
        /\ generation.out.value.rouge_score = One

\* C15 (amended): scoring an answer against itself gives bleu_score = 1.0 and
\* rouge_score = 1.0 when the answer has at least one token, and 0.0 for
\* both when it has none (empty or whitespace only).
C15_SelfScoreIsOneUnlessNoToken ==
    generation.called /\ generation.reference_answer = generation.generated_answer =>
        /\ ~generation.out.raised
        /\ generation.out.value.bleu_score =
               (IF Split(generation.generated_answer) = <<>> THEN 0 ELSE One)
        /\ generation.out.value.rouge_score =
               (IF Split(generation.generated_answer) = <<>> THEN 0 ELSE One)

\* an answer with a capitalised word and a repeated token, scored against itself
C15_Witness ==
    /\ generation.called
    /\ generation.reference_answer = generation.generated_answer
    /\ generation.generated_answer = <<"Cat", SP, "cat">>
    /\ generation.out.value.bleu_score = One
    /\ generation.out.value.rouge_score = One

SomeInputEmpty ==
    \/ generation.generated_answer = <<>>
    \/ generation.reference_answer = <<>>
    \/ generation.context = <<>>

\* C16: with an empty generated answer, reference answer or context list
\* nothing is raised and every metric computed from the empty input is 0.0.
C16_EmptyInputsScoreZero ==
    generation.called /\ SomeInputEmpty =>
        /\ ~generation.out.raised
        /\ generation.generated_answer = <<>> =>
               generation.out.value = GenerationMetrics(0, 0, 0, 0, 0)
        /\ generation.reference_answer = <<>> =>
               /\ generation.out.value.bleu_score = 0
               /\ generation.out.value.rouge_score = 0
               /\ generation.out.value.completeness_score = 0
        /\ generation.context = <<>> =>
               /\ generation.out.value.relevance_score = 0
               /\ generation.out.value.consistency_score = 0

\* C16 (amended): with an empty generated answer, reference answer or context
\* list nothing is raised; bleu_score, rouge_score and relevance_score are
\* 0.0 when an input they read is empty; consistency_score is 0.0 for an
\* empty context list and 1.0 for an empty answer with a non-empty context
\* list; completeness_score is 1.0 for an empty reference, and for an empty
\* answer it is 0.0 if the reference holds key information and 1.0 if not.
C16_EmptyInputsNeverRaise ==
    generation.called /\ SomeInputEmpty =>
        /\ ~generation.out.raised
        /\ generation.generated_answer = <<>> =>
               /\ generation.out.value.bleu_score = 0
               /\ generation.out.value.rouge_score = 0
               /\ generation.out.value.relevance_score = 0
               /\ generation.out.value.consistency_score =
                      (IF generation.context = <<>> THEN 0 ELSE One)
               /\ generation.out.value.completeness_score =
                      (IF _extract_key_information(generation.reference_answer) = {}
                       THEN One ELSE 0)
        /\ generation.reference_answer = <<>> =>
               /\ generation.out.value.bleu_score = 0
               /\ generation.out.value.rouge_score = 0
               /\ generation.out.value.completeness_score = One
        /\ generation.context = <<>> =>
               /\ generation.out.value.relevance_score = 0
               /\ generation.out.value.consistency_score = 0

\* an empty answer scored against a reference with key information and a
\* context with facts
C16_Witness ==
    /\ generation.called
    /\ generation.generated_answer = <<>>
    /\ generation.reference_answer = <<"API">>
    /\ generation.context = << <<"cat", SP, "42">> >>
    /\ ~generation.out.raised
    /\ generation.out.value = GenerationMetrics(0, 0, 0, One, 0)

(***************************************************************************)
(* Properties of evaluate_response_quality and calculate_similarity         *)
(***************************************************************************)
\* C17: an unknown name scores 0.0 and raises nothing: every criterion other
\* than clarity, conciseness, accuracy and helpfulness is mapped to 0.0 by
\* evaluate_response_quality, and calculate_similarity with an unknown
\* method returns 0.0.
C17_UnknownNameScoresZero ==
    /\ scoring.called /\ scoring.op = "quality" =>
           /\ ~scoring.out.raised
           /\ \A criterion \in SetOf(scoring.names) \ KnownCriteria :
                  scoring.out.value[criterion].n = 0
    /\ scoring.called /\ scoring.op = "similarity" /\ scoring.names[1] \notin KnownMethods =>
           /\ ~scoring.out.raised
           /\ scoring.out.value.n = 0

(***************************************************************************)
(* Properties of the EvaluationService (SpecService).                      *)
(***************************************************************************)
\* every call asked gave a result: no request of the call lacks its answer
AllEvaluated(requests) ==
    requests # <<>> /\ \A i \in 1..Len(requests) : requests[i].generated_answer # None

\* the report inside what evaluate_batch or run_benchmark returned
ReportReturned ==
    IF call.op = "evaluate_batch" THEN service.returned.batch_report
    ELSE service.returned.evaluation_report

\* C18: for every non-empty list of results produced by
\* evaluate_rag_response, which evaluate_batch and run_benchmark pass on,
\* the aggregate report is not an error: it has mean, min, max and std for
\* every metric and a list of recommendations, and it recommends improving
\* retrieval precision whenever the mean precision is below 0.5.
C18_BatchReportIsAReport ==
    (call.op \in {"evaluate_batch", "run_benchmark"} /\ AllEvaluated(call.requests)) =>
        /\ service.returned.error = None
        /\ \A key \in DOMAIN ReportReturned.metrics :
               DOMAIN ReportReturned.metrics[key] = {"mean", "min", "max", "std"}
        /\ ReportReturned.recommendations # <<>>
        /\ (\E key \in DOMAIN ReportReturned.metrics :
                key[2] = "precision" /\ ReportReturned.metrics[key].mean < 5000)
               => ImprovePrecision \in SetOf(ReportReturned.recommendations)

IsPrefix(old, new) == Len(old) <= Len(new) /\ SubSeq(new, 1, Len(old)) = old

\* the number of requests that have an answer
RECURSIVE Answered(_)
Answered(requests) ==
    IF requests = <<>> THEN 0
    ELSE (IF Head(requests).generated_answer = None THEN 0 ELSE 1) + Answered(Tail(requests))

\* what every call but clear_evaluation_results leaves of the log, and what
\* clear_evaluation_results does
KeepsTheLog ==
    /\ call'.op # "clear_evaluation_results" =>
           IsPrefix(service.evaluation_results, service'.evaluation_results)
    /\ call'.op \in {"compare_benchmarks", "get_evaluation_summary",
                     "export_evaluation_results", "generate_evaluation_report"} =>
           service'.evaluation_results = service.evaluation_results
    /\ call'.op = "clear_evaluation_results" => service'.evaluation_results = <<>>

SourceLines == SplitOn(PyNewlines(python.content), NL)

IsStatement(line) == Strip(line) # <<>> /\ Strip(line)[1] # "#"

\* the line declares a function, an async function or a class
Declares(line) == IsStatement(line) /\ Strip(line)[1] \in {"def", "async", "class"}

Declarations == { n \in 1..Len(SourceLines) : Declares(SourceLines[n]) }

\* the last line of the definition declared on line n: the last statement
\* of the run of deeper statements below it
DeclaredEnd(lines, n) ==
    Max({n} \cup { m \in (n + 1)..Len(lines) :
                      /\ IsStatement(lines[m])
                      /\ \A j \in (n + 1)..m :
                             IsStatement(lines[j]) => PyIndent(lines[j]) > PyIndent(lines[n]) })

\* the name after def, async def or class
DeclaredName(line) ==
    <<line[CHOOSE i \in 1..Len(line) :
               /\ line[i] \notin {SP, "async", "def", "class"}
               /\ \A j \in 1..(i - 1) : line[j] \in {SP, "async", "def", "class"}]>>

\* C20: for content that parses, _chunk_python_code emits exactly one chunk
\* per function, async function or class definition, top-level or nested,
\* whose content is the source lines start_line..end_line of the
\* definition, typed code_function or code_class and tagged with the name;
\* when parsing raises SyntaxError or there is no definition, the result is
\* that of _chunk_by_lines on the same content.
C20_OneChunkPerDefinition ==
    python.called =>
        IF PyParses(PyLines(SourceLines)) /\ Declarations # {}
        THEN /\ Len(python.chunks) = Cardinality(Declarations)
             /\ \A n \in Declarations : \E i \in 1..Len(python.chunks) :
                    /\ python.chunks[i].start_line = n
                    /\ python.chunks[i].end_line = DeclaredEnd(SourceLines, n)
                    /\ python.chunks[i].content =
                           Join(SubSeq(SourceLines, n, DeclaredEnd(SourceLines, n)), <<NL>>)
                    /\ python.chunks[i].chunk_type =
                           (IF Strip(SourceLines[n])[1] = "class" THEN "code_class"
                            ELSE "code_function")
                    /\ python.chunks[i].metadata.node_name = DeclaredName(SourceLines[n])
        ELSE python.chunks = _chunk_by_lines(python.content, "python", config)
(***************************************************************************)
(* Properties of the strategies                                            *)
(***************************************************************************)
Ran(op) == strategy.called /\ strategy.op = op

RECURSIVE Hashes(_, _)
\* the number of "#" a line starts with, counted from position i
Hashes(line, i) ==
    IF i <= Len(line) /\ line[i] = "#" THEN 1 + Hashes(line, i + 1) ELSE 0

\* a heading line: 1 to 6 "#", then whitespace, then text
IsHeading(line) ==
    /\ Hashes(line, 1) \in 1..6
    /\ Len(line) >= Hashes(line, 1) + 2
    /\ line[Hashes(line, 1) + 1] \in Space

\* the lines a section starts at: the heading lines, and line 1
SectionStarts(lines) == {1} \cup {i \in 1..Len(lines) : IsHeading(lines[i])}

\* the line before the next section, from line i on
SectionEnd(lines, i) ==
    IF \E j \in SectionStarts(lines) : j > i
    THEN (CHOOSE j \in SectionStarts(lines) :
              j > i /\ \A k \in SectionStarts(lines) : k > i => j <= k) - 1
    ELSE Len(lines)

\* the k-th smallest element of a set of numbers
RECURSIVE Nth(_, _)
Nth(set, k) ==
    LET least == CHOOSE x \in set : \A y \in set : x <= y
    IN IF k = 1 THEN least ELSE Nth(set \ {least}, k - 1)

\* C21: _chunk_markdown returns one chunk per section, in document order: a
\* section runs from a heading line (or from line 1) up to the line before
\* the next heading, its chunk holds these lines, its header is the heading
\* line and its header_level the number of "#" of the heading; the section
\* before the first heading has no header and level 0.
C21_SectionsCarryTheirHeading ==
    Ran("_chunk_markdown") =>
        LET lines == SplitOn(strategy.content, NL)
            starts == SectionStarts(lines)
        IN /\ Len(strategy.chunks) = Cardinality(starts)
           /\ \A k \in 1..Len(strategy.chunks) :
                  LET first == Nth(starts, k)
                      chunk == strategy.chunks[k]
                  IN /\ chunk.content =
                            Join(SubSeq(lines, first, SectionEnd(lines, first)), <<NL>>)
                     /\ IF IsHeading(lines[first])
                        THEN /\ chunk.metadata.header = lines[first]
                             /\ chunk.metadata.header_level = Hashes(lines[first], 1)
                        ELSE /\ chunk.metadata.header = NoHeader
                             /\ chunk.metadata.header_level = 0

\* the same without the level: the sections and their headers
C21_SectionsAndHeaders ==
    Ran("_chunk_markdown") =>
        LET lines == SplitOn(strategy.content, NL)
            starts == SectionStarts(lines)
        IN /\ Len(strategy.chunks) = Cardinality(starts)
           /\ \A k \in 1..Len(strategy.chunks) :
                  LET first == Nth(starts, k)
                      chunk == strategy.chunks[k]
                  IN /\ chunk.content =
                            Join(SubSeq(lines, first, SectionEnd(lines, first)), <<NL>>)
                     /\ chunk.metadata.header =
                            IF IsHeading(lines[first]) THEN lines[first] ELSE NoHeader

\* the example of the claim, whose second chunk is under "## Sub"
C21_ExampleLevels ==
    (Ran("_chunk_markdown") /\ strategy.content = ExampleMarkdown) =>
        /\ Len(strategy.chunks) = 2
        /\ strategy.chunks[1].metadata.header_level = 1
        /\ strategy.chunks[2].metadata.header_level = 2

\* the parts a chunk was joined from are parts[a..b], and the next chunk of
\* the strategy is joined from the last n of them and the parts up to e
Carries(parts, sep, n, closed, next) ==
    \E a \in 1..Len(parts), b \in 1..Len(parts), e \in 1..Len(parts) :
        /\ a <= b
        /\ b < e
        /\ closed.content = Join(SubSeq(parts, a, b), sep)
        /\ next.content = Join(SubSeq(parts, (IF a > b - n + 1 THEN a ELSE b - n + 1), e), sep)

\* C22: in a paragraph the text strategy splits into sentence groups, each
\* chunk after the first starts with the last two sentences of the chunk
\* before it (with its only sentence when it has one), followed by the
\* sentence that closed it; in the line-based
\* fallback each chunk after the first starts with the last five lines of
\* the chunk before it, followed by the line that closed it. Nothing else of
\* the closed chunk is carried.
C22_OverlapIsTheTail ==
    /\ Ran("_chunk_text") =>
           \A k \in 1..Len(strategy.chunks) - 1 :
               Carries(_split_sentences(Strip(strategy.content)), <<SP>>, 2,
                       strategy.chunks[k], strategy.chunks[k + 1])
    /\ Ran("_chunk_by_lines") =>
           \A k \in 1..Len(strategy.chunks) - 1 :
               Carries(SplitOn(strategy.content, NL), <<NL>>, 5,
                       strategy.chunks[k], strategy.chunks[k + 1])

\* the fallback has closed a chunk of more than five lines and gone on
C22_Witness ==
    /\ Ran("_chunk_by_lines")
    /\ \E k \in 1..Len(strategy.chunks) - 1 :
           Len(SplitOn(strategy.chunks[k].content, NL)) > 5

\* the text strategy has closed a chunk of more than two sentences and gone on
C22_SentencesWitness ==
    /\ Ran("_chunk_text")
    /\ \E k \in 1..Len(strategy.chunks) - 1 : strategy.chunks[k].token_count > 2
    /\ \A i \in 1..Len(_split_sentences(Strip(strategy.content))) :
           WordCount(_split_sentences(Strip(strategy.content))[i]) = 1

\* C23: every chunk of the sentence grouping of _chunk_text, and every chunk
\* of _chunk_by_lines, holds at most chunk_size tokens unless it is a single
\* sentence, or a single line.
C23_ChunksFitTheBudget ==
    /\ Ran("_chunk_text") =>
           \A k \in 1..Len(strategy.chunks) :
               strategy.chunks[k].chunk_type = "text_semantic" =>
                   \/ WordCount(strategy.chunks[k].content) <= strategy.cfg.chunk_size
                   \/ \E i \in 1..Len(_split_sentences(Strip(strategy.content))) :
                          strategy.chunks[k].content =
                              _split_sentences(Strip(strategy.content))[i]
    /\ Ran("_chunk_by_lines") =>
           \A k \in 1..Len(strategy.chunks) :
               \/ WordCount(strategy.chunks[k].content) <= strategy.cfg.chunk_size
               \/ Len(SplitOn(strategy.chunks[k].content, NL)) = 1

\* the budget holds of the first chunk of each run, which carries no overlap
C23_FirstChunkFitsTheBudget ==
    (Ran("_chunk_by_lines") /\ strategy.chunks # <<>>) =>
        \/ WordCount(strategy.chunks[1].content) <= strategy.cfg.chunk_size
        \/ Len(SplitOn(strategy.chunks[1].content, NL)) = 1

\* the number of windows of size words over n words
Windows(n, size) == (n + size - 1) \div size

\* sub is the j-th window of the words of parent, tagged as its sub-chunk
IsWindowOf(sub, parent, j, size) ==
    /\ Split(sub.content) =
           SubSeq(Split(parent.content), (j - 1) * size + 1,
                  Min2(j * size, WordCount(parent.content)))
    /\ sub.chunk_type = SubType(parent.chunk_type)
    /\ sub.metadata.original_chunk_id = parent.id
    /\ sub.metadata.is_sub_chunk
    /\ sub.language = parent.language
    /\ sub.start_line = parent.start_line
    /\ sub.end_line = parent.end_line

\* the windows of chunks[k] stand in out after position p, between what comes
\* of the chunks before it and what comes of the chunks after it
ReplacedAt(out, p, chunks, k, size) ==
    /\ p + Windows(WordCount(chunks[k].content), size) <= Len(out)
    /\ \A j \in 1..Windows(WordCount(chunks[k].content), size) :
           IsWindowOf(out[p + j], chunks[k], j, size)
    /\ \A q \in 1..Len(out) :
           /\ q <= p => out[q].chunk_index < chunks[k].chunk_index
           /\ q > p + Windows(WordCount(chunks[k].content), size) =>
                  out[q].chunk_index > chunks[k].chunk_index

\* C24: _validate_chunks returns, in the place of every chunk of more than
\* max_chunk_size words, the consecutive windows of chunk_size words of its
\* word sequence (the last one may be shorter), each of type
\* "<parent type>_sub" with original_chunk_id the id of the parent,
\* is_sub_chunk true and the language and the line span of the parent.
C24_LargeChunksBecomeWindows ==
    strategy.called =>
        \A k \in 1..Len(strategy.chunks) :
            WordCount(strategy.chunks[k].content) > strategy.cfg.max_chunk_size =>
                /\ ~strategy.valid_chunks.raised
                /\ strategy.cfg.chunk_size > 0
                /\ \E p \in 0..Len(strategy.valid_chunks.value) :
                       ReplacedAt(strategy.valid_chunks.value, p, strategy.chunks, k,
                                  strategy.cfg.chunk_size)

\* the same of the configurations with a chunk_size of at least 1 and
\* min_chunk_size <= max_chunk_size
C24_WindowsUnderAnOrderedConfig ==
    (/\ strategy.called
     /\ strategy.cfg.chunk_size > 0
     /\ strategy.cfg.min_chunk_size <= strategy.cfg.max_chunk_size) =>
        \A k \in 1..Len(strategy.chunks) :
            WordCount(strategy.chunks[k].content) > strategy.cfg.max_chunk_size =>
                /\ ~strategy.valid_chunks.raised
                /\ \E p \in 0..Len(strategy.valid_chunks.value) :
                       ReplacedAt(strategy.valid_chunks.value, p, strategy.chunks, k,
                                  strategy.cfg.chunk_size)

\* a chunk of five words has been cut into windows of two words
C24_ShortLastWindow ==
    /\ strategy.called
    /\ strategy.cfg.chunk_size = 2
    /\ ~strategy.valid_chunks.raised
    /\ \E k \in 1..Len(strategy.chunks) :
           /\ WordCount(strategy.chunks[k].content) = 5
           /\ strategy.cfg.max_chunk_size < 5
           /\ strategy.cfg.min_chunk_size <= strategy.cfg.max_chunk_size

\* the places of the chunks of the strategy that are within the bounds
Survivors ==
    {k \in 1..Len(strategy.chunks) :
        /\ strategy.cfg.min_chunk_size <= WordCount(strategy.chunks[k].content)
        /\ WordCount(strategy.chunks[k].content) <= strategy.cfg.max_chunk_size}

\* what the pass hands back: every chunk below min_chunk_size is absent,
\* every chunk within the bounds is there as it was, in the order of the
\* strategy
OnlyFilters(out) ==
    /\ \A k \in 1..Len(strategy.chunks) :
           WordCount(strategy.chunks[k].content) < strategy.cfg.min_chunk_size =>
               \A q \in 1..Len(out) :
                   /\ out[q] # strategy.chunks[k]
                   /\ out[q].metadata.original_chunk_id # strategy.chunks[k].id
    /\ \A k \in Survivors : \E q \in 1..Len(out) : out[q] = strategy.chunks[k]
    /\ \A k1 \in Survivors, k2 \in Survivors :
           k1 < k2 =>
               \E q1 \in 1..Len(out), q2 \in 1..Len(out) :
                   /\ q1 < q2
                   /\ out[q1] = strategy.chunks[k1]
                   /\ out[q2] = strategy.chunks[k2]

\* C25: the validation pass only filters and replaces: of the chunks of the
\* strategy, those below min_chunk_size words are absent from its output,
\* those of min_chunk_size to max_chunk_size words are in it unchanged, and
\* they keep the order the strategy gave them.
C25_ValidationOnlyFilters ==
    strategy.called => OnlyFilters(strategy.valid_chunks.value)

\* the same of the calls in which the pass returns
C25_ReturnedListOnlyFilters ==
    (strategy.called /\ ~strategy.valid_chunks.raised) =>
        OnlyFilters(strategy.valid_chunks.value)

\* a pass that dropped a chunk and kept two others
C25_DroppedAndKept ==
    /\ strategy.called
    /\ ~strategy.valid_chunks.raised
    /\ Cardinality(Survivors) >= 2
    /\ \E k \in 1..Len(strategy.chunks) :
           WordCount(strategy.chunks[k].content) < strategy.cfg.min_chunk_size

(***************************************************************************)
(* Properties of the contradiction check                                    *)
(***************************************************************************)
AnswerHasFacts == _extract_facts(generation.generated_answer) # {}

\* C26: the contradiction check is a no-op, so consistency_score is 1.0
\* whenever the answer holds a fact, for every context.
C26_FactsAlwaysConsistent ==
    (generation.called /\ AnswerHasFacts) =>
        /\ ~generation.out.raised
        /\ generation.out.value.consistency_score = One

\* C26 (amended): the contradiction check is a no-op, so consistency_score is
\* 1.0 whenever the answer holds a fact and the context list is not empty;
\* for an empty context list it is 0.0.
C26_FactsConsistentWithAnyContext ==
    (generation.called /\ AnswerHasFacts) =>
        /\ ~generation.out.raised
        /\ generation.out.value.consistency_score =
               (IF generation.context = <<>> THEN 0 ELSE One)

\* an answer with a fact scored against a context with other facts
C26_Witness ==
    /\ generation.called
    /\ AnswerHasFacts
    /\ generation.context # <<>>
    /\ _extract_facts(ContextText(generation.context)) # {}
    /\ _extract_facts(generation.generated_answer)
           \cap _extract_facts(ContextText(generation.context)) = {}
    /\ generation.out.value.consistency_score = One

(***************************************************************************)
(* Properties of the task queue                                             *)
(***************************************************************************)
\* the priority class of a task: urgent, then high, then every other one
Class(task) ==
    IF task.priority = "urgent" THEN 0 ELSE IF task.priority = "high" THEN 1 ELSE 2

ByClass(task_queue) ==
    \A i \in 1..Len(task_queue), j \in 1..Len(task_queue) :
        i < j => Class(task_queue[i]) <= Class(task_queue[j])

\* a step of the method op
Step(op) == base'.op = op /\ base' # base

\* C27: after every call the task queue is ordered by priority class, every
\* urgent task ahead of every high one and every high one ahead of the rest,
\* and get_next_task takes the head: it returns no task of a lower class
\* than one that is queued.
C27_QueueOrderedByClass ==
    [][/\ ByClass(base'.task_queue)
       /\ (Step("get_next_task") /\ base.task_queue # <<>>) =>
              /\ base'.task.id = Head(base.task_queue).id
              /\ base'.task_queue = Tail(base.task_queue)
              /\ \A i \in 1..Len(base.task_queue) :
                     Class(base'.task) <= Class(base.task_queue[i])]_vars

\* a high task stands behind an urgent one and ahead of a task queued
\* before it
C27_Witness ==
    /\ base.op = "add_task_to_queue"
    /\ Len(base.task_queue) = 3
    /\ base.task_queue[1].priority = "urgent"
    /\ base.task_queue[2].priority = "high"
    /\ base.task_queue[3].priority = "critical"
    /\ base.task_queue[2].id > base.task_queue[3].id
    /\ base.task_queue[2].id > base.task_queue[1].id

\* the sum of the retry counts
RECURSIVE Retries(_, _)
Retries(failed_tasks, i) ==
    IF i > Len(failed_tasks) THEN 0
    ELSE failed_tasks[i].retry_count + Retries(failed_tasks, i + 1)

\* C28: a call of retry_task for an id that is not in failed_tasks, or whose
\* retry_count has reached max_retries, returns False and leaves the queue
\* and the retry counts as they were; every other call returns True, queues
\* one more task, of priority high, and raises the retry_count of the task
\* by one and no other; the count of a task never passes the max_retries of
\* a call that returned True, so at most max_retries calls return True.
C28_RetriesAreBounded ==
    [][Step("retry_task") =>
           LET n == FindFailed(base.failed_tasks, base'.arg, 1)
               limit == IF base'.given = <<>> THEN base.max_retries ELSE base'.given[1]
           IN IF n = 0 \/ base.failed_tasks[n].retry_count >= limit
              THEN /\ ~base'.returned
                   /\ base'.task_queue = base.task_queue
                   /\ base'.failed_tasks = base.failed_tasks
              ELSE /\ base'.returned
                   /\ Len(base'.task_queue) = Len(base.task_queue) + 1
                   /\ \E i \in 1..Len(base'.task_queue) :
                          /\ base'.task_queue[i] = Task(base.uuid, "high")
                          /\ base'.task_queue =
                                 Insert(base.task_queue, i - 1, base'.task_queue[i])
                   /\ base'.failed_tasks[n].retry_count =
                          base.failed_tasks[n].retry_count + 1
                   /\ base'.failed_tasks[n].retry_count <= limit
                   /\ Retries(base'.failed_tasks, 1) = Retries(base.failed_tasks, 1) + 1]_vars

\* the last retry max_retries allows has been made
C28_Witness ==
    /\ base.op = "retry_task"
    /\ base.returned
    /\ base.given = <<>>
    /\ \E n \in 1..Len(base.failed_tasks) :
           base.failed_tasks[n].retry_count = base.max_retries

\* a retry has been refused because the count had reached max_retries
C28_Refused ==
    /\ base.op = "retry_task"
    /\ ~base.returned
    /\ \E n \in 1..Len(base.failed_tasks) :
           /\ base.failed_tasks[n].task_id = base.arg
           /\ base.failed_tasks[n].retry_count = base.max_retries

(***************************************************************************)
(* Properties of the status                                                 *)
(***************************************************************************)
ShutDown == base.status = "offline" /\ base.task_queue = <<>>

\* C29: shutdown leaves the status OFFLINE and the queue empty, and from
\* then on no call moves the status away from OFFLINE or queues a task.
C29_ShutDownStaysShutDown ==
    [][/\ Step("shutdown") => base'.status = "offline" /\ base'.task_queue = <<>>
       /\ ShutDown => base'.status = "offline" /\ base'.task_queue = <<>>]_vars

\* what shutdown itself does
C29_ShutdownClears ==
    [][Step("shutdown") => base'.status = "offline" /\ base'.task_queue = <<>>]_vars

\* the calls of process that have set the status and not reached their
\* return
InFlight == {c \in Callers : base.calls[c] \in {"started", "running", "chunking"}}

\* C30: under every interleaving of the calls of process the status is BUSY
\* while a call has started and not returned, and it is IDLE only when no
\* call is in flight, current_task being None once every call has returned.
C30_StatusReflectsCalls ==
    /\ InFlight # {} => base.status = "busy"
    /\ base.status = "idle" => InFlight = {}
    /\ (\A c \in Callers : base.calls[c] = "idle") => base.current_task = None

\* what holds under every interleaving: the status is BUSY or IDLE, it is
\* IDLE once every call has returned, and current_task is None then
C30_IdleWhenAllReturned ==
    /\ base.status \in {"busy", "idle"}
    /\ (\A c \in Callers : base.calls[c] = "idle") =>
           (base.status = "idle" /\ base.current_task = None)

====
